---- MODULE Spec2Model ----
(***************************************************************************)
(* A model of the WebAssembly binary decoder of learning-wasm: the input   *)
(* abstraction (io.rs), the primitive codecs (elements/primitives.rs), the *)
(* entity and instruction decoders, the section framing                    *)
(* (elements/sections.rs) and the module decoder (elements/module.rs).     *)
(*                                                                         *)
(* Bytes are 0..255.  A u32 is the record [hi, lo]: hi is bit 31 and lo    *)
(* the low 31 bits, so that every u32 is representable with TLC's          *)
(* integers.  An i8 / i32 is a plain (signed) integer.                     *)
(***************************************************************************)
EXTENDS Integers, Sequences, FiniteSets, TLC

(***************************************************************************)
(* Machine words                                                           *)
(***************************************************************************)
U32(h, l) == [hi |-> h, lo |-> l]

U32Zero == U32(0, 0)

U32OfNat(n) == U32(0, n)

\* `x as usize` of a u32 x (usize is 64 bits wide): lo + hi * 2^31.
AsUsize(u) == u.lo + u.hi * 2147483647 + u.hi

\* The group or-ed in without the shift.
U32OrNoShl(res, g, shift) == U32(res.hi, res.lo + g)

\* res | ((g as u32) << shift) for a 7-bit group g and shift in {0,7,14,21,28},
\* truncated to 32 bits; the bits of res at and above shift are clear.
U32OrShl(res, g, shift) ==
    IF shift < 28
    THEN U32(res.hi, res.lo + g * (2 ^ shift))
    ELSE U32((g \div 8) % 2, res.lo + (g % 8) * (2 ^ 28))

\* u32::from_le_bytes
U32FromLeBytes(b) ==
    U32(b[4] \div 128, b[1] + 256 * b[2] + 65536 * b[3] + 16777216 * (b[4] % 128))

LeadingZeros8Lax(b) == 8

\* u8::leading_zeros
LeadingZeros8(b) ==
    IF b >= 128 THEN 0
    ELSE IF b >= 64 THEN 1
    ELSE IF b >= 32 THEN 2
    ELSE IF b >= 16 THEN 3
    ELSE IF b >= 8 THEN 4
    ELSE IF b >= 4 THEN 5
    ELSE IF b >= 2 THEN 6
    ELSE IF b >= 1 THEN 7
    ELSE 8

AsI8Unsigned(b) == b

\* `b as i8`
AsI8(b) == IF b >= 128 THEN b - 256 ELSE b

\* `v as u8` of an i8
I8AsU8(v) == IF v < 0 THEN v + 256 ELSE v

Min(a, b) == IF a < b THEN a ELSE b

Zeros(n) == [i \in 1..n |-> 0]

(***************************************************************************)
(* Errors (elements/mod.rs, enum Error).  n carries the offending byte or  *)
(* number, msg the text of Other / HeapOther.                              *)
(***************************************************************************)
Error(kind, n, msg) == [kind |-> kind, n |-> n, msg |-> msg]

NoError == Error("None", 0, "")

Err(kind) == Error(kind, 0, "")

ErrN(kind, n) == Error(kind, n, "")

\* impl From<io::Error> for Error: every io::Error becomes HeapOther.
FromIoError(iokind) == Error("HeapOther", 0, iokind)

(***************************************************************************)
(* Readers.  A reader is [kind, data, pos, ending, short]:                 *)
(*   kind = "stream": the caller's stream wrapped in io::BufReader; data   *)
(*       are the bytes it will deliver and ending says what it does after  *)
(*       them ("eof": Ok(0), "fault": a transport error);                  *)
(*   kind = "cursor": io::Cursor<Vec<u8>>, the reader inside SectionReader.*)
(* pos is the number of bytes delivered so far; short records that some    *)
(* read of this reader returned fewer bytes than its buffer holds.         *)
(***************************************************************************)
Stream(data, ending) ==
    [kind |-> "stream", data |-> data, pos |-> 0, ending |-> ending, short |-> FALSE]

Cursor(data) ==
    [kind |-> "cursor", data |-> data, pos |-> 0, ending |-> "eof", short |-> FALSE]

Avail(r) == Len(r.data) - r.pos

\* The byte counts one read of n > 0 bytes can return.  A cursor copies all it
\* has, up to n; a stream may return any count from 1 up, and 0 only at its end.
Counts(r, n) ==
    IF r.kind = "cursor" \/ Avail(r) = 0
    THEN {Min(n, Avail(r))}
    ELSE 1..Min(n, Avail(r))

\* The count a reader that fills every request returns.
FullCount(r, n) == Min(n, Avail(r))

\* A successful read leaves the io::Error slot empty.
IoOk == "ok"

\* The wrapped stream's read: Ok(k), or a transport error at a faulty end.
InnerRead(r, k) ==
    IF k = 0 /\ r.kind = "stream" /\ r.ending = "fault"
    THEN [io |-> "ConnectionReset", k |-> 0]
    ELSE [io |-> IoOk, k |-> k]

BufReaderReadMissesEof(inner) == inner

\* io::BufReader::read: a read of 0 bytes becomes an UnexpectedEof error.
BufReaderRead(inner) ==
    IF inner.io # IoOk THEN inner
    ELSE IF inner.k = 0 THEN [io |-> "UnexpectedEof", k |-> 0]
    ELSE inner

\* reader.read(&mut buf) returning k bytes: the first k bytes of buf are
\* overwritten, the rest keep what they held.  [io, buf, r]
Read(r, buf, k) ==
    LET res == IF r.kind = "stream" THEN BufReaderRead(InnerRead(r, k))
               ELSE [io |-> IoOk, k |-> k]
    IN  [io  |-> res.io,
         buf |-> [i \in 1..Len(buf) |->
                    IF i <= res.k THEN r.data[r.pos + i] ELSE buf[i]],
         r   |-> [r EXCEPT !.pos = @ + res.k,
                           !.short = @ \/ res.k < Len(buf)]]

(***************************************************************************)
(* Results of a decoder: Ok(value, reader) or Fail(error, reader).         *)
(***************************************************************************)
Ok(v, r) == [ok |-> TRUE, val |-> v, err |-> NoError, r |-> r]

Fail(e, r) == [ok |-> FALSE, val |-> <<>>, err |-> e, r |-> r]

\* The ? operator: an Err returns at once, an Ok goes on with K.
Try(x, K(_)) == IF ~x.ok THEN x ELSE K(x)

\* reader.read(&mut buf)? returning k bytes: Ok(buf, reader), the count dropped.
ReadOrFail(r, buf, k) ==
    LET rd == Read(r, buf, k)
    IN  IF rd.io # IoOk THEN Fail(FromIoError(rd.io), rd.r) ELSE Ok(rd.buf, rd.r)

\* The same for a one-byte buffer.
ReadByte(r, u8buf) == ReadOrFail(r, u8buf, Min(1, Avail(r)))

(***************************************************************************)
(* Primitive codecs (elements/primitives.rs).  Every decoder calls         *)
(* reader.read once per buffer and does not look at the returned count.    *)
(***************************************************************************)
PRIMITIVES_BUFFER_LENGTH == 1024

\* Uint32::deserialize, the read returning k bytes.
Uint32DeserializeK(r, k) ==
    Try(ReadOrFail(r, Zeros(4), k), LAMBDA buf : Ok(U32FromLeBytes(buf.val), buf.r))

Uint32Deserialize(r) == Uint32DeserializeK(r, FullCount(r, 4))

\* Uint64::deserialize; the value is kept as its 8 little-endian bytes.
Uint64Deserialize(r) == ReadOrFail(r, Zeros(8), FullCount(r, 8))

\* A decoder of the reference byte that reads it and hands on 0.
Uint8DeserializeAsZero(r) ==
    Try(ReadByte(r, Zeros(1)), LAMBDA u8buf : Ok(0, u8buf.r))

\* A decoder of a byte that drops its bit 7.
Uint8DeserializeSevenBit(r) ==
    Try(ReadByte(r, Zeros(1)), LAMBDA u8buf : Ok(u8buf.val[1] % 128, u8buf.r))

\* Uint8::deserialize and VarUint7::deserialize: one byte, uninterpreted.
Uint8Deserialize(r) ==
    Try(ReadByte(r, Zeros(1)), LAMBDA u8buf : Ok(u8buf.val[1], u8buf.r))

VarUint7Deserialize(r) ==
    Try(ReadByte(r, Zeros(1)), LAMBDA u8buf : Ok(u8buf.val[1], u8buf.r))

\* VarUint1::deserialize
VarUint1Deserialize(r) ==
    Try(ReadByte(r, Zeros(1)), LAMBDA u8buf :
        IF u8buf.val[1] = 0 THEN Ok(FALSE, u8buf.r)
        ELSE IF u8buf.val[1] = 1 THEN Ok(TRUE, u8buf.r)
        ELSE Fail(ErrN("InvalidVarUint1", u8buf.val[1]), u8buf.r))

\* A VarInt7 decoder that leaves out the sign extension.
VarInt7DeserializeNoSign(r) ==
    Try(ReadByte(r, Zeros(1)), LAMBDA u8buf :
        IF u8buf.val[1] \div 128 # 0
        THEN Fail(ErrN("InvalidVarInt7", u8buf.val[1]), u8buf.r)
        ELSE Ok(u8buf.val[1], u8buf.r))

\* VarInt7::deserialize; the value is an i8.
VarInt7Deserialize(r) ==
    Try(ReadByte(r, Zeros(1)), LAMBDA u8buf :
        LET b == u8buf.val[1]
        IN  IF b \div 128 # 0 THEN Fail(ErrN("InvalidVarInt7", b), u8buf.r)
            ELSE IF (b \div 64) % 2 = 1 THEN Ok(AsI8(b + 128), u8buf.r)
            ELSE Ok(AsI8(b), u8buf.r))

\* VarUint32::deserialize.  u8buf is declared outside the loop: a read of 0
\* bytes leaves the byte of the previous iteration in it.
RECURSIVE VarUint32Loop(_, _, _, _)
VarUint32Loop(r, res, shift, u8buf) ==
    IF shift > 31 THEN Fail(Err("InvalidVarUint32"), r)
    ELSE Try(ReadByte(r, u8buf), LAMBDA rd :
        LET b      == rd.val[1]
            res2   == U32OrShl(res, b % 128, shift)
            shift2 == shift + 7
        IN  IF b \div 128 = 0
            THEN IF shift2 >= 32 /\ LeadingZeros8(b) < 4
                 THEN Fail(Err("InvalidVarInt32"), rd.r)
                 ELSE Ok(res2, rd.r)
            ELSE VarUint32Loop(rd.r, res2, shift2, rd.val))

VarUint32Deserialize(r) == VarUint32Loop(r, U32Zero, 0, Zeros(1))

\* u32 bit pattern read as an i32.
U32AsI32(u) == IF u.hi = 1 THEN (u.lo - 1073741824) - 1073741824 ELSE u.lo

U32NoSignExtend(res, shift) == res

\* res | (1i32 << shift).wrapping_neg(): bits shift..31 set (they were clear).
U32SignExtend(res, shift) == U32(1, res.lo + (1073741824 - 2 ^ shift) + 1073741824)

\* VarInt32::deserialize
RECURSIVE VarInt32Loop(_, _, _, _)
VarInt32Loop(r, res, shift, u8buf) ==
    IF shift > 31 THEN Fail(Err("InvalidVarInt32"), r)
    ELSE Try(ReadByte(r, u8buf), LAMBDA rd :
        LET b      == rd.val[1]
            res2   == U32OrShl(res, b % 128, shift)
            shift2 == shift + 7
            sign   == (b \div 64) % 2 = 1
        IN  IF b \div 128 = 0
            THEN IF shift2 < 32 /\ sign
                 THEN Ok(U32AsI32(U32SignExtend(res2, shift2)), rd.r)
                 ELSE IF shift2 >= 32 /\ sign
                 THEN IF LeadingZeros8(255 - ((b % 128) + 128)) < 5
                      THEN Fail(Err("InvalidVarInt32"), rd.r)
                      ELSE Ok(U32AsI32(res2), rd.r)
                 ELSE IF shift2 >= 32 /\ ~sign
                 THEN IF LeadingZeros8(b) < 5
                      THEN Fail(Err("InvalidVarInt32"), rd.r)
                      ELSE Ok(U32AsI32(res2), rd.r)
                 ELSE Ok(U32AsI32(res2), rd.r)
            ELSE VarInt32Loop(rd.r, res2, shift2, rd.val))

VarInt32Deserialize(r) == VarInt32Loop(r, U32Zero, 0, Zeros(1))

\* An i64 is kept as its ten 7-bit groups, least significant first; the
\* tenth holds bit 63 alone.
I64Zero == [i \in 1..10 |-> 0]

\* res | (((b & 0x7f) as i64) << shift), truncated to 64 bits.
I64OrShl(res, g, shift) ==
    [res EXCEPT ![(shift \div 7) + 1] = IF shift = 63 THEN g % 2 ELSE g]

\* res | (1i64 << shift).wrapping_neg(): bits shift..63 set.
I64SignExtend(res, shift) ==
    [i \in 1..10 |-> IF i <= shift \div 7 THEN res[i] ELSE IF i = 10 THEN 1 ELSE 127]

\* VarInt64::deserialize
RECURSIVE VarInt64Loop(_, _, _, _)
VarInt64Loop(r, res, shift, u8buf) ==
    IF shift > 63 THEN Fail(Err("InvalidVarInt64"), r)
    ELSE Try(ReadByte(r, u8buf), LAMBDA rd :
        LET b      == rd.val[1]
            res2   == I64OrShl(res, b % 128, shift)
            shift2 == shift + 7
            sign   == (b \div 64) % 2 = 1
        IN  IF b \div 128 = 0
            THEN IF shift2 < 64 /\ sign
                 THEN Ok(I64SignExtend(res2, shift2), rd.r)
                 ELSE IF shift2 >= 64 /\ sign
                 THEN IF AsI8((b % 128) + 128) # -1
                      THEN Fail(Err("InvalidVarInt64"), rd.r)
                      ELSE Ok(res2, rd.r)
                 ELSE IF shift2 >= 64 /\ b # 0
                 THEN Fail(Err("InvalidVarInt64"), rd.r)
                 ELSE Ok(res2, rd.r)
            ELSE VarInt64Loop(rd.r, res2, shift2, rd.val))

VarInt64Deserialize(r) == VarInt64Loop(r, I64Zero, 0, Zeros(1))

(***************************************************************************)
(* buffered_read! (elements/mod.rs).  st = [length, total_read, v, buf]:   *)
(* buf holds the part of the stack buffer written so far, the rest of it   *)
(* is still zero.                                                          *)
(***************************************************************************)
BufferedReadInit(length) ==
    [length |-> length, total_read |-> 0, v |-> <<>>, buf |-> <<>>]

BufferedReadDone(st) == ~(st.total_read < st.length)

NextToRead(st, size) ==
    IF st.length - st.total_read > size THEN size ELSE st.length - st.total_read

\* buf[0..n] of a buffer of which only Len(buf) bytes were ever written.
Slice(buf, n) == [i \in 1..n |-> IF i <= Len(buf) THEN buf[i] ELSE 0]

\* One iteration of the while loop, the read returning k bytes.  [io, st, r]
BufferedReadStep(st, r, size, k) ==
    LET n   == NextToRead(st, size)
        rd  == Read(r, Slice(st.buf, n), k)
    IN  [io |-> rd.io,
         r  |-> rd.r,
         st |-> IF rd.io # IoOk THEN st
                ELSE [st EXCEPT !.v = @ \o rd.buf,
                                !.total_read = @ + n,
                                !.buf = rd.buf \o SubSeq(@, n + 1, Len(@))]]

\* The whole macro over a reader that fills every request (a cursor).
RECURSIVE BufferedReadLoop(_, _, _)
BufferedReadLoop(st, r, size) ==
    IF BufferedReadDone(st) THEN Ok(st.v, r)
    ELSE LET s == BufferedReadStep(st, r, size, FullCount(r, NextToRead(st, size)))
         IN  IF s.io # IoOk THEN Fail(FromIoError(s.io), s.r)
             ELSE BufferedReadLoop(s.st, s.r, size)

BufferedRead(size, length, r) == BufferedReadLoop(BufferedReadInit(length), r, size)

(***************************************************************************)
(* String::from_utf8: the well-formedness of a UTF-8 byte sequence.        *)
(***************************************************************************)
IsCont(b, lo, hi) == b >= lo /\ b <= hi

\* The length of the well-formed sequence that starts at s[i], 0 if none does.
Utf8Width(s, i) ==
    LET b == s[i]
        n == Len(s) - i + 1
        second == IF n >= 2 THEN s[i + 1] ELSE 0
        third  == IF n >= 3 THEN s[i + 2] ELSE 0
        fourth == IF n >= 4 THEN s[i + 3] ELSE 0
    IN  IF b < 128 THEN 1
        ELSE IF b >= 194 /\ b <= 223
        THEN IF n >= 2 /\ IsCont(second, 128, 191) THEN 2 ELSE 0
        ELSE IF b >= 224 /\ b <= 239
        THEN IF /\ n >= 3
                /\ IsCont(second, IF b = 224 THEN 160 ELSE 128,
                                  IF b = 237 THEN 159 ELSE 191)
                /\ IsCont(third, 128, 191)
             THEN 3 ELSE 0
        ELSE IF b >= 240 /\ b <= 244
        THEN IF /\ n >= 4
                /\ IsCont(second, IF b = 240 THEN 144 ELSE 128,
                                  IF b = 244 THEN 143 ELSE 191)
                /\ IsCont(third, 128, 191)
                /\ IsCont(fourth, 128, 191)
             THEN 4 ELSE 0
        ELSE 0

\* s is a chain of well-formed sequences: one starts at s[1] and at every byte
\* that is no continuation byte, and each is followed by the next or the end.
IsUtf8(s) ==
    \A i \in 1..Len(s) :
        (i = 1 \/ ~IsCont(s[i], 128, 191)) =>
            LET w == Utf8Width(s, i)
            IN  /\ w > 0
                /\ i + w <= Len(s) => ~IsCont(s[i + w], 128, 191)

\* impl Deserialize for String; a string is kept as its bytes.
StringDeserialize(r) ==
    Try(VarUint32Deserialize(r), LAMBDA len :
        IF len.val = U32Zero THEN Ok(<<>>, len.r)
        ELSE Try(BufferedRead(PRIMITIVES_BUFFER_LENGTH, AsUsize(len.val), len.r),
                 LAMBDA v : IF IsUtf8(v.val) THEN v
                            ELSE Fail(Err("NonUtf8String"), v.r)))

(***************************************************************************)
(* Counted sequences (primitives.rs, CountedList) and the decoders of the  *)
(* types and entities that hold no instruction sequence.  T names the      *)
(* element type.                                                           *)
(***************************************************************************)
\* ValueType::deserialize
ValueTypeDeserialize(r) ==
    Try(VarInt7Deserialize(r), LAMBDA val :
        IF val.val = -1 THEN Ok("I32", val.r)
        ELSE IF val.val = -2 THEN Ok("I64", val.r)
        ELSE IF val.val = -3 THEN Ok("F32", val.r)
        ELSE IF val.val = -4 THEN Ok("F64", val.r)
        ELSE Fail(ErrN("UnknownValueType", val.val), val.r))

\* TableElementType::deserialize
TableElementTypeDeserialize(r) ==
    Try(VarInt7Deserialize(r), LAMBDA val :
        IF val.val = -16 THEN Ok("AnyFunc", val.r)
        ELSE Fail(ErrN("UnknownTableElementType", val.val), val.r))

\* BlockType::deserialize
BlockTypeDeserialize(r) ==
    Try(VarInt7Deserialize(r), LAMBDA val :
        IF val.val = -1 THEN Ok("I32", val.r)
        ELSE IF val.val = -2 THEN Ok("I64", val.r)
        ELSE IF val.val = -3 THEN Ok("F32", val.r)
        ELSE IF val.val = -4 THEN Ok("F64", val.r)
        ELSE IF val.val = -64 THEN Ok("NoResult", val.r)
        ELSE Fail(ErrN("UnknownValueType", val.val), val.r))

FLAG_HAS_MAX == 1

\* ResizableLimits::deserialize
ResizableLimitsDeserialize(r) ==
    Try(Uint8Deserialize(r), LAMBDA flags :
        IF flags.val \notin {0, 1}
        THEN Fail(ErrN("InvalidLimitsFlags", flags.val), flags.r)
        ELSE Try(VarUint32Deserialize(flags.r), LAMBDA initial :
            IF flags.val % 2 = FLAG_HAS_MAX
            THEN Try(VarUint32Deserialize(initial.r), LAMBDA maximum :
                     Ok([initial |-> initial.val, maximum |-> <<maximum.val>>],
                        maximum.r))
            ELSE Ok([initial |-> initial.val, maximum |-> <<>>], initial.r)))

\* TableType::deserialize
TableTypeDeserialize(r) ==
    Try(TableElementTypeDeserialize(r), LAMBDA elem_type :
    Try(ResizableLimitsDeserialize(elem_type.r), LAMBDA limits :
        Ok([elem_type |-> elem_type.val, limits |-> limits.val], limits.r)))

\* GlobalType::deserialize
GlobalTypeDeserialize(r) ==
    Try(ValueTypeDeserialize(r), LAMBDA content_type :
    Try(VarUint1Deserialize(content_type.r), LAMBDA is_mutable :
        Ok([content_type |-> content_type.val, is_mutable |-> is_mutable.val],
           is_mutable.r)))

\* Ok(variant(x?)): the value of an Ok under the tag of an enum variant.
Variant(tag, x) == Try(x, LAMBDA v : Ok([kind |-> tag, val |-> v.val], v.r))

\* External::deserialize: the kind is read as a VarInt7 and cast to u8.
ExternalDeserialize(r) ==
    Try(VarInt7Deserialize(r), LAMBDA kind :
        IF I8AsU8(kind.val) = 0 THEN Variant("Function", VarUint32Deserialize(kind.r))
        ELSE IF I8AsU8(kind.val) = 1 THEN Variant("Table", TableTypeDeserialize(kind.r))
        ELSE IF I8AsU8(kind.val) = 2
        THEN Variant("Memory", ResizableLimitsDeserialize(kind.r))
        ELSE IF I8AsU8(kind.val) = 3 THEN Variant("Global", GlobalTypeDeserialize(kind.r))
        ELSE Fail(ErrN("UnknownExternalKind", I8AsU8(kind.val)), kind.r))

\* ImportEntry::deserialize
ImportEntryDeserialize(r) ==
    Try(StringDeserialize(r), LAMBDA module_str :
    Try(StringDeserialize(module_str.r), LAMBDA field_str :
    Try(ExternalDeserialize(field_str.r), LAMBDA external :
        Ok([module_str |-> module_str.val, field_str |-> field_str.val,
            external |-> external.val], external.r))))

\* An Internal decoder that reads the kind as External does, as a VarInt7.
InternalDeserializeSigned(r) ==
    Try(VarInt7Deserialize(r), LAMBDA kind :
        IF I8AsU8(kind.val) \in 0..3
        THEN Variant(<<"Function", "Table", "Memory", "Global">>[I8AsU8(kind.val) + 1],
                     VarUint32Deserialize(kind.r))
        ELSE Fail(ErrN("UnknownInternalKind", I8AsU8(kind.val)), kind.r))

\* Internal::deserialize
InternalDeserialize(r) ==
    Try(VarUint7Deserialize(r), LAMBDA kind :
        IF kind.val = 0 THEN Variant("Function", VarUint32Deserialize(kind.r))
        ELSE IF kind.val = 1 THEN Variant("Table", VarUint32Deserialize(kind.r))
        ELSE IF kind.val = 2 THEN Variant("Memory", VarUint32Deserialize(kind.r))
        ELSE IF kind.val = 3 THEN Variant("Global", VarUint32Deserialize(kind.r))
        ELSE Fail(ErrN("UnknownInternalKind", kind.val), kind.r))

\* ExportEntry::deserialize
ExportEntryDeserialize(r) ==
    Try(StringDeserialize(r), LAMBDA field_str :
    Try(InternalDeserialize(field_str.r), LAMBDA internal :
        Ok([field_str |-> field_str.val, internal |-> internal.val], internal.r)))

\* Func::deserialize
FuncDeserialize(r) == VarUint32Deserialize(r)

\* Local::deserialize
LocalDeserialize(r) ==
    Try(VarUint32Deserialize(r), LAMBDA count :
    Try(ValueTypeDeserialize(count.r), LAMBDA value_type :
        Ok([count |-> count.val, value_type |-> value_type.val], value_type.r)))

\* T::deserialize for the element types of the counted lists; it is defined
\* below, behind the decoders of all of them.
RECURSIVE Deserialize(_, _)

\* The for loop of CountedList::deserialize: n iterations from st, the list so
\* far and the reader; an Err ends the loop.  The iterations are taken half by
\* half, which keeps the evaluation shallow for long lists.
RECURSIVE CountedListLoop(_, _, _)
CountedListLoop(T, n, st) ==
    IF n = 0 THEN st
    ELSE IF n = 1
    THEN Try(st, LAMBDA res :
         Try(Deserialize(T, res.r), LAMBDA t : Ok(Append(res.val, t.val), t.r)))
    ELSE Try(st, LAMBDA res :
         CountedListLoop(T, n - n \div 2, CountedListLoop(T, n \div 2, res)))

\* CountedList::<T>::deserialize
CountedListDeserialize(T, r) ==
    Try(VarUint32Deserialize(r), LAMBDA len :
        CountedListLoop(T, AsUsize(len.val), Ok(<<>>, len.r)))

\* A FunctionType decoder with the multi-value relaxation.
FunctionTypeDeserializeMultiValue(r) ==
    Try(VarUint7Deserialize(r), LAMBDA form :
        IF form.val # 96 THEN Fail(ErrN("UnknownFunctionForm", form.val), form.r)
        ELSE Try(CountedListDeserialize("ValueType", form.r), LAMBDA params :
             Try(CountedListDeserialize("ValueType", params.r), LAMBDA results :
                 Ok([form |-> form.val, params |-> params.val,
                     results |-> results.val], results.r))))

\* FunctionType::deserialize
FunctionTypeDeserialize(r) ==
    Try(VarUint7Deserialize(r), LAMBDA form :
        IF form.val # 96 THEN Fail(ErrN("UnknownFunctionForm", form.val), form.r)
        ELSE Try(CountedListDeserialize("ValueType", form.r), LAMBDA params :
             Try(CountedListDeserialize("ValueType", params.r), LAMBDA results :
                 IF Len(results.val) > 1
                 THEN Fail(Error("Other", 0, "Enable the multi_value feature"),
                           results.r)
                 ELSE Ok([form |-> form.val, params |-> params.val,
                          results |-> results.val], results.r))))

(***************************************************************************)
(* Instructions (elements/ops.rs).  An instruction is [op, imm]: the       *)
(* opcode byte, which names the variant, and the tuple of its immediates.  *)
(***************************************************************************)
UNREACHABLE == 0
NOP == 1
BLOCK == 2
LOOP == 3
IF_ == 4
ELSE_ == 5
END == 11
BR == 12
BRIF == 13
BRTABLE == 14
RETURN == 15
CALL == 16
CALLINDIRECT == 17
DROP == 26
SELECT == 27
GETLOCAL == 32
SETGLOBAL == 36
I32LOAD == 40
I64STORE32 == 62
CURRENTMEMORY == 63
GROWMEMORY == 64
I32CONST == 65
I64CONST == 66
F32CONST == 67
F64CONST == 68
I32EQZ == 69
F64REINTERPRETI64 == 191

Instr(op, imm) == [op |-> op, imm |-> imm]

IsBlockNoIf(i) == i.op \in {BLOCK, LOOP}

\* Instruction::is_block
IsBlock(i) == i.op \in {BLOCK, LOOP, IF_}

\* Instruction::is_terminal
IsTerminal(i) == i.op = END

\* An instruction with the one immediate x?.
Instr1(op, x) == Try(x, LAMBDA v : Ok(Instr(op, <<v.val>>), v.r))

\* Instruction::deserialize
InstructionDeserialize(r) ==
    Try(Uint8Deserialize(r), LAMBDA val :
        LET op == val.val
        IN  IF op \in {UNREACHABLE, NOP, ELSE_, END, RETURN, DROP, SELECT}
            THEN Ok(Instr(op, <<>>), val.r)
            ELSE IF op \in {BLOCK, LOOP, IF_} THEN Instr1(op, BlockTypeDeserialize(val.r))
            ELSE IF op \in {BR, BRIF, CALL} \/ op \in GETLOCAL..SETGLOBAL
            THEN Instr1(op, VarUint32Deserialize(val.r))
            ELSE IF op = BRTABLE
            THEN Try(CountedListDeserialize("VarUint32", val.r), LAMBDA t1 :
                 Try(VarUint32Deserialize(t1.r), LAMBDA t2 :
                     Ok(Instr(op, <<t1.val, t2.val>>), t2.r)))
            ELSE IF op = CALLINDIRECT
            THEN Try(VarUint32Deserialize(val.r), LAMBDA signature :
                 Try(Uint8Deserialize(signature.r), LAMBDA table_ref :
                     IF table_ref.val # 0
                     THEN Fail(ErrN("InvalidTableReference", table_ref.val), table_ref.r)
                     ELSE Ok(Instr(op, <<signature.val, table_ref.val>>), table_ref.r)))
            ELSE IF op \in I32LOAD..I64STORE32
            THEN Try(VarUint32Deserialize(val.r), LAMBDA flags :
                 Try(VarUint32Deserialize(flags.r), LAMBDA offset :
                     Ok(Instr(op, <<flags.val, offset.val>>), offset.r)))
            ELSE IF op \in {CURRENTMEMORY, GROWMEMORY}
            THEN Try(Uint8Deserialize(val.r), LAMBDA mem_ref :
                     IF mem_ref.val # 0
                     THEN Fail(ErrN("InvalidMemoryReference", mem_ref.val), mem_ref.r)
                     ELSE Ok(Instr(op, <<mem_ref.val>>), mem_ref.r))
            ELSE IF op = I32CONST THEN Instr1(op, VarInt32Deserialize(val.r))
            ELSE IF op = I64CONST THEN Instr1(op, VarInt64Deserialize(val.r))
            ELSE IF op = F32CONST THEN Instr1(op, Uint32Deserialize(val.r))
            ELSE IF op = F64CONST THEN Instr1(op, Uint64Deserialize(val.r))
            ELSE IF op \in I32EQZ..F64REINTERPRETI64 THEN Ok(Instr(op, <<>>), val.r)
            ELSE Fail(ErrN("UnknownOpcode", op), val.r))

\* The loop of Instructions::deserialize from the depth block_count on.
RECURSIVE InstructionsLoop(_, _, _)
InstructionsLoop(r, count, instructions) ==
    Try(InstructionDeserialize(r), LAMBDA instruction :
        LET count2 == IF IsTerminal(instruction.val) THEN count - 1
                      ELSE IF IsBlock(instruction.val) THEN count + 1
                      ELSE count
        IN  IF count2 = 0 THEN Ok(Append(instructions, instruction.val), instruction.r)
            ELSE InstructionsLoop(instruction.r, count2,
                                  Append(instructions, instruction.val)))

\* Instructions::deserialize
InstructionsDeserialize(r) == InstructionsLoop(r, 1, <<>>)

\* An initializer decoder that follows the depth as the expression decoder
\* does, and gives up at the end of the input.
RECURSIVE InitExprNestedLoop(_, _)
InitExprNestedLoop(r, count) ==
    IF Avail(r) = 0 THEN Fail(Err("UnexpectedEof"), r)
    ELSE Try(InstructionDeserialize(r), LAMBDA i :
        LET count2 == IF IsTerminal(i.val) THEN count - 1
                      ELSE IF IsBlock(i.val) THEN count + 1
                      ELSE count
        IN  IF count2 = 0 THEN Ok(<<>>, i.r) ELSE InitExprNestedLoop(i.r, count2))

InitExprDeserializeNested(r) == InitExprNestedLoop(r, 1)

\* The loop of InitExpr::deserialize; ins stays empty.
RECURSIVE InitExprLoop(_, _)
InitExprLoop(r, ins) ==
    Try(InstructionDeserialize(r), LAMBDA i :
        IF IsTerminal(i.val) THEN Ok(ins, i.r) ELSE InitExprLoop(i.r, ins))

\* InitExpr::deserialize
InitExprDeserialize(r) == InitExprLoop(r, <<>>)

(***************************************************************************)
(* Section framing (elements/sections.rs) and function bodies (func.rs).   *)
(***************************************************************************)
ENTRIES_BUFFER_LENGTH == 16384

VALUES_BUFFER_LENGTH == 16384

\* A SectionReader over the buffered payload v.
SectionReader(declared_length, v) ==
    [declared_length |-> declared_length, cursor |-> Cursor(v)]

\* SectionReader::new over a reader that fills every request (the reader of
\* the enclosing section, for a function body).
SectionReaderNew(r) ==
    Try(VarUint32Deserialize(r), LAMBDA length :
    Try(BufferedRead(ENTRIES_BUFFER_LENGTH, AsUsize(length.val), length.r), LAMBDA v :
        Ok(SectionReader(AsUsize(length.val), v.val), v.r)))

SectionReaderCloseUnchecked(sr) == IoOk

\* SectionReader::close: the io::Error it returns, IoOk for Ok(()).
SectionReaderClose(sr) ==
    IF sr.cursor.pos # sr.declared_length THEN "InvalidData" ELSE IoOk

\* u32::wrapping_add
U32WrappingAdd(a, b) ==
    LET carry == a.lo > 2147483647 - b.lo
        lo    == IF carry THEN (a.lo - (2147483647 - b.lo)) - 1 ELSE a.lo + b.lo
    IN  <<U32((a.hi + b.hi + (IF carry THEN 1 ELSE 0)) % 2, lo)>>

\* u32::checked_add: <<sum>> or <<>>.
U32CheckedAdd(a, b) ==
    LET carry == a.lo > 2147483647 - b.lo
        lo    == IF carry THEN (a.lo - (2147483647 - b.lo)) - 1 ELSE a.lo + b.lo
        hi    == a.hi + b.hi + (IF carry THEN 1 ELSE 0)
    IN  IF hi > 1 THEN <<>> ELSE <<U32(hi, lo)>>

\* locals.iter().try_fold(0u32, |acc, l| acc.checked_add(l.count))
RECURSIVE LocalsFold(_, _, _)
LocalsFold(locals, i, acc) ==
    IF i > Len(locals) THEN <<acc>>
    ELSE LET s == U32CheckedAdd(acc, locals[i].count)
         IN  IF s = <<>> THEN <<>> ELSE LocalsFold(locals, i + 1, s[1])

\* The result x of a decoder that read from a reader of its own, handed to the
\* owner of the reader r.
Outer(r, x) == [x EXCEPT !.r = r]

\* FuncBody::deserialize up to the instruction loop: the body reader, standing
\* behind the locals, and the locals.  r is the reader of the code section.
FuncBodyBegin(r) ==
    Try(SectionReaderNew(r), LAMBDA body_reader : Outer(body_reader.r,
    Try(CountedListDeserialize("Local", body_reader.val.cursor), LAMBDA locals :
        IF LocalsFold(locals.val, 1, U32Zero) = <<>>
        THEN Fail(Err("TooManyLocals"), locals.r)
        ELSE Ok([body   |-> [body_reader.val EXCEPT !.cursor = locals.r],
                 locals |-> locals.val], locals.r))))

\* The part of GlobalEntry, ElementSegment and DataSegment::deserialize that
\* precedes the initializer expression.
SegmentBegin(id, r) ==
    IF id = 6 THEN GlobalTypeDeserialize(r) ELSE VarUint32Deserialize(r)

\* ... and the part that follows it; head is what SegmentBegin returned and
\* offset the initializer expression.
SegmentEnd(id, head, offset, r) ==
    IF id = 6 THEN Ok([global_type |-> head, init_expr |-> offset], r)
    ELSE IF id = 9
    THEN Try(CountedListDeserialize("VarUint32", r), LAMBDA members :
             Ok([index |-> head, offset |-> <<offset>>, members |-> members.val],
                members.r))
    ELSE Try(VarUint32Deserialize(r), LAMBDA value_len :
         Try(BufferedRead(VALUES_BUFFER_LENGTH, AsUsize(value_len.val), value_len.r),
             LAMBDA value_buf :
             Ok([index |-> head, offset |-> <<offset>>, value |-> value_buf.val],
                value_buf.r)))

\* GlobalEntry (id 6), ElementSegment (9) and DataSegment (11)::deserialize
SegmentDeserialize(id, r) ==
    Try(SegmentBegin(id, r), LAMBDA head :
    Try(InitExprDeserialize(head.r), LAMBDA offset :
        SegmentEnd(id, head.val, offset.val, offset.r)))

\* ElementSegment::deserialize
ElementSegmentDeserialize(r) == SegmentDeserialize(9, r)

\* x?, then reader.close()?, then Ok(x) for the value x decoded from the
\* SectionReader reader.
Closed(reader, x) ==
    Try(x, LAMBDA v :
        IF SectionReaderClose([reader EXCEPT !.cursor = v.r]) # IoOk
        THEN Fail(FromIoError(SectionReaderClose([reader EXCEPT !.cursor = v.r])), v.r)
        ELSE v)

\* FuncBody::deserialize
FuncBodyDeserialize(r) ==
    Try(FuncBodyBegin(r), LAMBDA begun : Outer(begun.r,
    Try(Closed(begun.val.body, InstructionsDeserialize(begun.val.body.cursor)),
        LAMBDA instructions :
        Ok([locals |-> begun.val.locals, instructions |-> instructions.val],
           instructions.r))))

Deserialize(T, r) ==
    CASE T = "ValueType"       -> ValueTypeDeserialize(r)
      [] T = "VarUint32"       -> VarUint32Deserialize(r)
      [] T = "Local"           -> LocalDeserialize(r)
      [] T = "FunctionType"    -> FunctionTypeDeserialize(r)
      [] T = "ImportEntry"     -> ImportEntryDeserialize(r)
      [] T = "Func"            -> FuncDeserialize(r)
      [] T = "TableType"       -> TableTypeDeserialize(r)
      [] T = "ResizableLimits" -> ResizableLimitsDeserialize(r)
      [] T = "ExportEntry"     -> ExportEntryDeserialize(r)
      [] T = "GlobalEntry"     -> SegmentDeserialize(6, r)
      [] T = "ElementSegment"  -> SegmentDeserialize(9, r)
      [] T = "DataSegment"     -> SegmentDeserialize(11, r)
      [] T = "FuncBody"        -> FuncBodyDeserialize(r)


\* A match on the id that knows no id above 127.
SectionKindSevenBit(id) ==
    IF id >= 128 THEN "Invalid"
    ELSE IF id > 12 THEN "Unparsed"
    ELSE <<"Custom", "Type", "Import", "Function", "Table", "Memory", "Global",
           "Export", "Start", "Element", "Code", "Data", "DataCount">>[id + 1]

\* Section::deserialize, the match on the id: the variant and, for the
\* sections that hold a counted list, the element type.
SectionKind(id) ==
    CASE id = 0  -> "Custom"
      [] id = 1  -> "Type"
      [] id = 2  -> "Import"
      [] id = 3  -> "Function"
      [] id = 4  -> "Table"
      [] id = 5  -> "Memory"
      [] id = 6  -> "Global"
      [] id = 7  -> "Export"
      [] id = 8  -> "Start"
      [] id = 9  -> "Element"
      [] id = 10 -> "Code"
      [] id = 11 -> "Data"
      [] id = 12 -> "DataCount"
      [] OTHER   -> "Unparsed"

ElementType(id) ==
    CASE id = 1 -> "FunctionType"
      [] id = 2 -> "ImportEntry"
      [] id = 3 -> "Func"
      [] id = 4 -> "TableType"
      [] id = 5 -> "ResizableLimits"
      [] id = 7 -> "ExportEntry"
      [] id = 6 -> "GlobalEntry"
      [] id = 9 -> "ElementSegment"
      [] id = 10 -> "FuncBody"
      [] id = 11 -> "DataSegment"

ListIds == {1, 2, 3, 4, 5, 6, 7, 9, 10, 11}

SimpleListIds == {1, 2, 3, 4, 5, 7}

SegmentIds == {6, 9, 11}

Section(id, val) == [kind |-> SectionKind(id), id |-> id, val |-> val]

\* CustomSection::deserialize once the payload is buffered.
CustomSectionDecode(buf) ==
    Try(StringDeserialize(Cursor(buf)), LAMBDA name :
        Ok([name |-> name.val, payload |-> SubSeq(buf, name.r.pos + 1, Len(buf))],
           name.r))

\* Section::deserialize, the read of the id: any failure becomes UnexpectedEof.
SectionReadId(r) ==
    LET id == VarUint7Deserialize(r)
    IN  IF ~id.ok THEN Fail(Err("UnexpectedEof"), id.r) ELSE id

\* Section::deserialize over a reader that fills every request.
SectionDeserialize(r) ==
    Try(SectionReadId(r), LAMBDA id :
        IF SectionKind(id.val) = "Custom"
        THEN Try(VarUint32Deserialize(id.r), LAMBDA section_length :
             Try(BufferedRead(ENTRIES_BUFFER_LENGTH, AsUsize(section_length.val),
                              section_length.r), LAMBDA buf : Outer(buf.r,
             Try(CustomSectionDecode(buf.val), LAMBDA custom :
                 Ok(Section(id.val, custom.val), custom.r)))))
        ELSE Try(SectionReaderNew(id.r), LAMBDA section_reader : Outer(section_reader.r,
             IF SectionKind(id.val) \in {"Start", "DataCount"}
             THEN Try(Closed(section_reader.val,
                             VarUint32Deserialize(section_reader.val.cursor)),
                      LAMBDA idx : Ok(Section(id.val, idx.val), idx.r))
             ELSE IF id.val \in ListIds
             THEN Try(Closed(section_reader.val,
                             CountedListDeserialize(ElementType(id.val),
                                                    section_reader.val.cursor)),
                      LAMBDA entries : Ok(Section(id.val, entries.val), entries.r))
             ELSE Ok(Section(id.val, section_reader.val.cursor.data),
                     section_reader.val.cursor))))

(***************************************************************************)
(* The module decoder (elements/module.rs).                                *)
(***************************************************************************)
WASM_MAGIC_NUMBER == <<0, 97, 115, 109>>

MagicMatchesPrefix(buf) == SubSeq(buf, 1, 3) = SubSeq(WASM_MAGIC_NUMBER, 1, 3)

\* buf != WASM_MAGIC_NUMBER, negated
MagicMatches(buf) == buf = WASM_MAGIC_NUMBER

ModuleOk == [kind |-> "ok", err |-> NoError]

ModuleErr(e) == [kind |-> "err", err |-> e]

\* The match in the section loop: UnexpectedEof ends the loop and the module
\* is returned, every other error is returned.
SectionLoopOnError(e) ==
    IF e.kind = "UnexpectedEof" THEN ModuleOk ELSE ModuleErr(e)

(***************************************************************************)
(* The inputs.  A stream delivers a preamble, then some well-formed        *)
(* sections, then one last section, well-formed or not, with up to        *)
(* MaxCut bytes missing at its end; after its bytes it ends or fails.      *)
(***************************************************************************)
MaxSections == 2

MaxCut == 3

MaxSpin == 2

MaxShort == 1

Preambles ==
    << <<0, 97, 115, 109, 1, 0, 0, 0>>,      \* \0asm, version 1
       <<0, 97, 115, 110, 1, 0, 0, 0>>,      \* bad magic
       <<0, 97, 115, 109, 2, 0, 0, 0>>,      \* version 2
       <<0, 97, 115, 109, 1, 1, 0, 0>> >>    \* version 257

WellFormed ==
    << <<1, 4, 1, 96, 0, 0>>,                \* Type: () -> ()
       <<3, 2, 1, 0>>,                       \* Function: [0]
       <<10, 4, 1, 2, 0, 11>>,               \* Code: one body, no locals, END
       <<6, 6, 1, 127, 0, 65, 0, 11>>,       \* Global: i32, i32.const 0
       <<0, 3, 1, 36, 7>> >>                 \* Custom "$", payload 07

OtherSections ==
    << <<3, 1, 2>>,                          \* Function: count 2, no entries
       <<8, 2, 0, 0>>,                       \* Start: one byte left over
       <<8, 1, 0>>,                          \* Start 0
       <<12, 1, 5>>,                         \* DataCount 5
       <<10, 4, 1, 2, 0, 1>>,                \* Code: body without END
       <<10, 6, 1, 4, 0, 2, 64, 11>>,        \* Code: block never closed
       <<10, 7, 1, 5, 1, 1, 127, 11, 11>>,   \* Code: bytes after the END
       <<6, 4, 1, 127, 0, 65>>,              \* Global: initializer without END
       <<7, 5, 1, 1, 102, 0, 0>>,            \* Export "f" -> func 0
       <<9, 6, 1, 0, 11, 2, 0, 1>>,          \* Element: table 0, [0, 1]
       <<11, 6, 1, 0, 1, 11, 1, 9>>,         \* Data: memory 0, nop, [09]
       <<2, 5, 1, 0, 0, 0, 0>>,              \* Import "" "" func 0
       <<4, 4, 1, 112, 0, 0>>,               \* Table: anyfunc, min 0
       <<5, 4, 1, 1, 0, 1>>,                 \* Memory: min 0, max 1
       <<13, 1, 255>>,                       \* unknown id 13
       <<1, 4, 1, 64, 0, 0>>,                \* Type: form 0x40
       <<8, 2, 128>>,                        \* Start: length 2, one byte
                                             \* present
       <<10, 8, 1, 6, 0, 4, 64, 5, 11, 11>>, \* Code: if, else, end, end
       <<1, 255, 255, 255, 255, 7>> >>       \* Type: declared length 2^31 - 1

LastSections == WellFormed \o OtherSections

RECURSIVE Concat(_)
Concat(ss) == IF ss = <<>> THEN <<>> ELSE Head(ss) \o Concat(Tail(ss))

\* The sequences over 1..n of length at most m.
RECURSIVE SeqsUpTo(_, _)
SeqsUpTo(n, m) ==
    IF m = 0 THEN {<<>>}
    ELSE LET shorter == SeqsUpTo(n, m - 1)
         IN  shorter \cup {Append(q, i) : q \in shorter, i \in 1..n}

\* The shape of an input: the preamble, the well-formed sections, the last
\* section (0: none) and the number of bytes cut from the end.
Wires ==
    {[pre |-> p, secs |-> q, last |-> l, cut |-> c] :
        p \in 1..Len(Preambles),
        q \in IF MaxSections > 1 THEN SeqsUpTo(Len(WellFormed), MaxSections - 1)
                                 ELSE {<<>>},
        l \in 0..Len(LastSections),
        c \in 0..MaxCut}

WireSections(w) ==
    [i \in 1..Len(w.secs) |-> WellFormed[w.secs[i]]]
        \o (IF w.last = 0 THEN <<>> ELSE <<LastSections[w.last]>>)

WireBytes(w) ==
    LET all == Preambles[w.pre] \o Concat(WireSections(w))
    IN  SubSeq(all, 1, Len(all) - Min(w.cut, Len(all)))

(***************************************************************************)
(* The decoder as a state machine: one step per read of the stream and per *)
(* iteration of the element and instruction loops.                         *)
(***************************************************************************)
VARIABLES
    rd,           \* the stream the module is decoded from
    short_reads,  \* the reads of the stream that returned less than was there
    wire,         \* the shape of the input
    pc,           \* the position in Module::deserialize
    result,       \* what Module::deserialize returned
    sections,     \* the sections vector of the section loop
    sec,          \* the section being decoded: its id and SectionReader
    fill,         \* the state of buffered_read! over the stream
    list,         \* the counted list being decoded: elements to go, elements
    ent,          \* the part of the current element decoded so far
    body,         \* the SectionReader of the function body being decoded
    instrs,       \* the instruction vector of the running instruction loop
    block_count,  \* the depth counter of Instructions::deserialize
    spins,        \* loop iterations made on an exhausted payload, up to MaxSpin
    starved,      \* a section's length or payload was asked of a stream at its end
    prev,         \* the position the last step was taken from
    ref,          \* the result of the earlier decode of the same stream
    call,         \* the decoder applied on its own, and its input
    ret           \* what that decoder returned

vars == <<rd, short_reads, wire, pc, result, sections, sec, fill, list, ent, body,
          instrs, block_count, spins, starved, prev, ref, call, ret>>

NoSection == [id |-> 0, reader |-> SectionReader(0, <<>>)]

NoList == [remaining |-> 0, items |-> <<>>]

NoResult == [kind |-> "none", err |-> NoError]

NoRef == [kind |-> "none", err |-> NoError, sections |-> <<>>]

NoCall == [fn |-> "none", on |-> "cursor", bytes |-> <<>>, args |-> <<>>]

NoRet == <<>>

\* The state Module::deserialize starts in.
Start ==
    /\ pc = "magic"
    /\ result = NoResult
    /\ sections = <<>>
    /\ sec = NoSection
    /\ fill = BufferedReadInit(0)
    /\ list = NoList
    /\ ent = <<>>
    /\ body = SectionReader(0, <<>>)
    /\ instrs = <<>>
    /\ block_count = 1
    /\ spins = 0
    /\ starved = FALSE
    /\ prev = "start"

Init ==
    /\ wire \in Wires
    /\ \E e \in {"eof", "fault"} : rd = Stream(WireBytes(wire), e)
    /\ short_reads = 0
    /\ ref = NoRef
    /\ call = NoCall
    /\ ret = NoRet
    /\ Start

\* The byte counts a read of n bytes of the stream can return: any count the
\* Read contract allows while fewer than MaxShort reads came back short of
\* what was there, the full count afterwards.
Delivered(n) ==
    IF short_reads < MaxShort THEN Counts(rd, n) ELSE {FullCount(rd, n)}

\* The number of short reads after a read of n bytes returned k.
Shorter(k, n) == IF k < FullCount(rd, n) THEN short_reads + 1 ELSE short_reads

\* Module::deserialize returns res.
Return(res) ==
    /\ pc' = "done"
    /\ result' = res

\* Section::deserialize failed with e: the match of the section loop.
SectionFailed(e) == Return(SectionLoopOnError(e))

\* let mut buf = [0u8; 4]; reader.read(&mut buf)?; if buf != WASM_MAGIC_NUMBER ..
ReadMagic ==
    /\ pc = "magic"
    /\ prev' = pc
    /\ \E k \in Delivered(4) :
          \E got \in {Read(rd, Zeros(4), k)} :
              /\ rd' = got.r
              /\ short_reads' = Shorter(k, 4)
              /\ IF got.io # IoOk THEN Return(ModuleErr(FromIoError(got.io)))
                 ELSE IF ~MagicMatches(got.buf) THEN Return(ModuleErr(Err("InvalidMagic")))
                 ELSE pc' = "version" /\ UNCHANGED result
    /\ UNCHANGED <<wire, sections, sec, fill, list, ent, body, instrs,
                   block_count, spins, starved, ref, call, ret>>

\* let version: u32 = Uint32::deserialize(reader)?.into(); if version != 1 ..
ReadVersion ==
    /\ pc = "version"
    /\ prev' = pc
    /\ \E k \in Delivered(4) :
          \E version \in {Uint32DeserializeK(rd, k)} :
              /\ rd' = version.r
              /\ short_reads' = Shorter(k, 4)
              /\ IF ~version.ok THEN Return(ModuleErr(version.err))
                 ELSE IF version.val # U32OfNat(1)
                 THEN Return(ModuleErr(ErrN("UnsupportedVersion", version.val)))
                 ELSE pc' = "section" /\ UNCHANGED result
    /\ UNCHANGED <<wire, sections, sec, fill, list, ent, body, instrs,
                   block_count, spins, starved, ref, call, ret>>

\* Section::deserialize: the id.
ReadSectionId ==
    /\ pc = "section"
    /\ prev' = pc
    /\ \E id \in {SectionReadId(rd)} :
           /\ rd' = id.r
           /\ IF ~id.ok THEN SectionFailed(id.err) /\ UNCHANGED sec
              ELSE /\ pc' = "length"
                   /\ sec' = [NoSection EXCEPT !.id = id.val]
                   /\ UNCHANGED result
    /\ UNCHANGED <<short_reads, wire, sections, fill, list, ent, body, instrs, block_count,
                   spins, starved, ref, call, ret>>

\* SectionReader::new and CustomSection::deserialize: the declared length.
ReadLength ==
    /\ pc = "length"
    /\ prev' = pc
    /\ \E len \in {VarUint32Deserialize(rd)} :
           /\ rd' = len.r
           /\ starved' = (starved \/ (~len.ok /\ len.err.kind = "HeapOther"))
           /\ IF ~len.ok
              THEN SectionFailed(len.err) /\ UNCHANGED <<sec, fill>>
              ELSE /\ fill' = BufferedReadInit(AsUsize(len.val))
                   /\ sec' = [sec EXCEPT !.reader = SectionReader(AsUsize(len.val), <<>>)]
                   /\ pc' = IF BufferedReadDone(fill') THEN "payload" ELSE "fill"
                   /\ UNCHANGED result
    /\ UNCHANGED <<short_reads, wire, sections, list, ent, body, instrs, block_count,
                   spins, ref, call, ret>>

\* One iteration of buffered_read!(ENTRIES_BUFFER_LENGTH, declared_length, r).
FillChunk ==
    /\ pc = "fill"
    /\ prev' = pc
    /\ \E k \in Delivered(NextToRead(fill, ENTRIES_BUFFER_LENGTH)) :
          \E step \in {BufferedReadStep(fill, rd, ENTRIES_BUFFER_LENGTH, k)} :
              /\ rd' = step.r
              /\ short_reads' = Shorter(k, NextToRead(fill, ENTRIES_BUFFER_LENGTH))
              /\ starved' =
                    (starved \/ Avail(rd) < NextToRead(fill, ENTRIES_BUFFER_LENGTH))
              /\ IF step.io # IoOk
                 THEN SectionFailed(FromIoError(step.io)) /\ UNCHANGED <<sec, fill>>
                 ELSE /\ fill' = step.st
                      /\ IF BufferedReadDone(step.st)
                         THEN /\ pc' = "payload"
                              /\ sec' = [sec EXCEPT !.reader =
                                    SectionReader(step.st.length, step.st.v)]
                         ELSE UNCHANGED <<pc, sec>>
                      /\ UNCHANGED result
    /\ UNCHANGED <<wire, sections, list, ent, body, instrs, block_count, spins,
                   ref, call, ret>>

\* Section::Custom(CustomSection::deserialize(reader)?)
DecodeCustom ==
    /\ pc = "payload"
    /\ prev' = pc
    /\ sec.id = 0
    /\ \E c \in {CustomSectionDecode(sec.reader.cursor.data)} :
           /\ sec' = [sec EXCEPT !.reader.cursor = c.r]
           /\ IF ~c.ok THEN SectionFailed(c.err) /\ UNCHANGED sections
              ELSE /\ sections' = Append(sections, Section(0, c.val))
                   /\ pc' = "section"
                   /\ UNCHANGED result
    /\ UNCHANGED <<rd, short_reads, wire, fill, list, ent, body, instrs, block_count, spins,
                   starved, ref, call, ret>>

\* Section::Unparsed { id, payload }
DecodeUnparsed ==
    /\ pc = "payload"
    /\ prev' = pc
    /\ SectionKind(sec.id) = "Unparsed"
    /\ sections' = Append(sections, Section(sec.id, sec.reader.cursor.data))
    /\ pc' = "section"
    /\ UNCHANGED <<rd, short_reads, wire, result, sec, fill, list, ent, body, instrs,
                   block_count, spins, starved, ref, call, ret>>

\* Start and DataCount: VarUint32::deserialize(&mut section_reader)?
DecodeIndex ==
    /\ pc = "payload"
    /\ prev' = pc
    /\ sec.id \in {8, 12}
    /\ \E idx \in {VarUint32Deserialize(sec.reader.cursor)} :
           /\ sec' = [sec EXCEPT !.reader.cursor = idx.r]
           /\ IF ~idx.ok THEN SectionFailed(idx.err) /\ UNCHANGED list
              ELSE /\ list' = [remaining |-> 0, items |-> idx.val]
                   /\ pc' = "close"
                   /\ UNCHANGED result
    /\ UNCHANGED <<rd, short_reads, wire, sections, fill, ent, body, instrs, block_count,
                   spins, starved, ref, call, ret>>

\* CountedList::deserialize(&mut rd): the length.
ListCount ==
    /\ pc = "payload"
    /\ prev' = pc
    /\ sec.id \in ListIds
    /\ \E len \in {VarUint32Deserialize(sec.reader.cursor)} :
           /\ sec' = [sec EXCEPT !.reader.cursor = len.r]
           /\ IF ~len.ok THEN SectionFailed(len.err) /\ UNCHANGED list
              ELSE /\ list' = [remaining |-> AsUsize(len.val), items |-> <<>>]
                   /\ pc' = IF AsUsize(len.val) = 0 THEN "close" ELSE "element"
                   /\ UNCHANGED result
    /\ UNCHANGED <<rd, short_reads, wire, sections, fill, ent, body, instrs, block_count,
                   spins, starved, ref, call, ret>>

\* The list gains the element t and the for loop goes on or ends.
Push(t) ==
    /\ list' = [remaining |-> list.remaining - 1, items |-> Append(list.items, t)]
    /\ pc' = IF list.remaining = 1 THEN "close" ELSE "element"

\* One iteration of the for loop of CountedList for an element type without
\* an instruction sequence.
ListElement ==
    /\ pc = "element"
    /\ prev' = pc
    /\ sec.id \in SimpleListIds
    /\ \E t \in {Deserialize(ElementType(sec.id), sec.reader.cursor)} :
           /\ sec' = [sec EXCEPT !.reader.cursor = t.r]
           /\ IF ~t.ok THEN SectionFailed(t.err) /\ UNCHANGED list
              ELSE Push(t.val) /\ UNCHANGED result
    /\ UNCHANGED <<rd, short_reads, wire, sections, fill, ent, body, instrs, block_count,
                   spins, starved, ref, call, ret>>

\* GlobalEntry, ElementSegment, DataSegment::deserialize up to the initializer.
SegmentHead ==
    /\ pc = "element"
    /\ prev' = pc
    /\ sec.id \in SegmentIds
    /\ \E head \in {SegmentBegin(sec.id, sec.reader.cursor)} :
           /\ sec' = [sec EXCEPT !.reader.cursor = head.r]
           /\ IF ~head.ok THEN SectionFailed(head.err) /\ UNCHANGED <<ent, instrs>>
              ELSE /\ ent' = head.val
                   /\ instrs' = <<>>
                   /\ pc' = "initexpr"
                   /\ UNCHANGED result
    /\ UNCHANGED <<rd, short_reads, wire, sections, fill, list, body, block_count, spins,
                   starved, ref, call, ret>>

\* A loop iteration that began with nothing left to read has completed.
Spin(r) == IF Avail(r) = 0 /\ spins < MaxSpin THEN spins + 1 ELSE spins

\* One iteration of the loop of InitExpr::deserialize; ins is never pushed to.
InitExprStep ==
    /\ pc = "initexpr"
    /\ prev' = pc
    /\ \E i \in {InstructionDeserialize(sec.reader.cursor)} :
           /\ sec' = [sec EXCEPT !.reader.cursor = i.r]
           /\ IF ~i.ok THEN SectionFailed(i.err) /\ UNCHANGED spins
              ELSE /\ spins' = Spin(sec.reader.cursor)
                   /\ pc' = IF IsTerminal(i.val) THEN "segment" ELSE "initexpr"
                   /\ UNCHANGED result
    /\ UNCHANGED <<rd, short_reads, wire, sections, fill, list, ent, body, instrs, block_count,
                   starved, ref, call, ret>>

\* The rest of GlobalEntry, ElementSegment, DataSegment::deserialize.
SegmentTail ==
    /\ pc = "segment"
    /\ prev' = pc
    /\ \E t \in {SegmentEnd(sec.id, ent, instrs, sec.reader.cursor)} :
           /\ sec' = [sec EXCEPT !.reader.cursor = t.r]
           /\ IF ~t.ok THEN SectionFailed(t.err) /\ UNCHANGED list
              ELSE Push(t.val) /\ UNCHANGED result
    /\ UNCHANGED <<rd, short_reads, wire, sections, fill, ent, body, instrs, block_count,
                   spins, starved, ref, call, ret>>

\* FuncBody::deserialize up to Instructions::deserialize.
BodyHead ==
    /\ pc = "element"
    /\ prev' = pc
    /\ sec.id = 10
    /\ \E b \in {FuncBodyBegin(sec.reader.cursor)} :
           /\ sec' = [sec EXCEPT !.reader.cursor = b.r]
           /\ IF ~b.ok
              THEN SectionFailed(b.err) /\ UNCHANGED <<ent, body, instrs, block_count>>
              ELSE /\ body' = b.val.body
                   /\ ent' = b.val.locals
                   /\ instrs' = <<>>
                   /\ block_count' = 1
                   /\ pc' = "instruction"
                   /\ UNCHANGED result
    /\ UNCHANGED <<rd, short_reads, wire, sections, fill, list, spins, starved, ref, call, ret>>

\* One iteration of the loop of Instructions::deserialize.  The vector is
\* recorded until MaxSpin iterations were made on an exhausted payload.
InstructionStep ==
    /\ pc = "instruction"
    /\ prev' = pc
    /\ \E i \in {InstructionDeserialize(body.cursor)} :
          LET count == IF ~i.ok THEN block_count
                       ELSE IF IsTerminal(i.val) THEN block_count - 1
                       ELSE IF IsBlock(i.val) THEN block_count + 1
                       ELSE block_count
          IN  /\ body' = [body EXCEPT !.cursor = i.r]
              /\ IF ~i.ok
                 THEN SectionFailed(i.err) /\ UNCHANGED <<instrs, block_count, spins>>
                 ELSE /\ block_count' = count
                      /\ spins' = Spin(body.cursor)
                      /\ instrs' = IF Avail(body.cursor) = 0 /\ spins = MaxSpin
                                   THEN instrs ELSE Append(instrs, i.val)
                      /\ pc' = IF count = 0 THEN "bodyclose" ELSE "instruction"
                      /\ UNCHANGED result
    /\ UNCHANGED <<rd, short_reads, wire, sections, sec, fill, list, ent, starved, ref, call, ret>>

\* body_reader.close()?; Ok(FuncBody { locals, instructions })
BodyClose ==
    /\ pc = "bodyclose"
    /\ prev' = pc
    /\ LET io == SectionReaderClose(body)
       IN  /\ sec' = [sec EXCEPT !.reader.cursor.short = @ \/ body.cursor.short]
           /\ IF io # IoOk THEN SectionFailed(FromIoError(io)) /\ UNCHANGED list
              ELSE /\ Push([locals |-> ent, instructions |-> instrs])
                   /\ UNCHANGED result
    /\ UNCHANGED <<rd, short_reads, wire, sections, fill, ent, body, instrs, block_count,
                   spins, starved, ref, call, ret>>

\* rd.close()?; Ok(...): the section joins the sections vector.
CloseSection ==
    /\ pc = "close"
    /\ prev' = pc
    /\ LET io == SectionReaderClose(sec.reader)
       IN  IF io # IoOk THEN SectionFailed(FromIoError(io)) /\ UNCHANGED sections
           ELSE /\ sections' = Append(sections, Section(sec.id, list.items))
                /\ pc' = "section"
                /\ UNCHANGED result
    /\ UNCHANGED <<rd, short_reads, wire, sec, fill, list, ent, body, instrs, block_count,
                   spins, starved, ref, call, ret>>

Next ==
    \/ ReadMagic
    \/ ReadVersion
    \/ ReadSectionId
    \/ ReadLength
    \/ FillChunk
    \/ DecodeCustom
    \/ DecodeUnparsed
    \/ DecodeIndex
    \/ ListCount
    \/ ListElement
    \/ SegmentHead
    \/ InitExprStep
    \/ SegmentTail
    \/ BodyHead
    \/ InstructionStep
    \/ BodyClose
    \/ CloseSection

Spec == Init /\ [][Next]_vars

(***************************************************************************)
(* The same stream decoded twice: first by way of a reader that fills      *)
(* every request, then by way of one that may return less.                 *)
(***************************************************************************)
InitTwice ==
    /\ wire \in Wires
    /\ \E e \in {"eof", "fault"} : rd = Stream(WireBytes(wire), e)
    /\ short_reads = MaxShort
    /\ ref = NoRef
    /\ call = NoCall
    /\ ret = NoRet
    /\ Start

\* The first decode has returned: its result is kept and the stream rewound.
Rerun ==
    /\ pc = "done"
    /\ ref = NoRef
    /\ ref' = [kind |-> result.kind, err |-> result.err, sections |-> sections]
    /\ rd' = Stream(rd.data, rd.ending)
    /\ short_reads' = 0
    /\ pc' = "magic"
    /\ prev' = "start"
    /\ result' = NoResult
    /\ sections' = <<>>
    /\ sec' = NoSection
    /\ fill' = BufferedReadInit(0)
    /\ list' = NoList
    /\ ent' = <<>>
    /\ body' = SectionReader(0, <<>>)
    /\ instrs' = <<>>
    /\ block_count' = 1
    /\ spins' = 0
    /\ starved' = FALSE
    /\ UNCHANGED <<wire, call, ret>>

NextTwice ==
    \/ Next
    \/ Rerun

SpecTwice == InitTwice /\ [][NextTwice]_vars

(***************************************************************************)
(* The codecs applied on their own: one decoder over a reader that holds   *)
(* bytes drawn from bounded sets.  A LEB128 input is a run of bytes with   *)
(* the continuation bit set, then nothing or one byte without it.          *)
(***************************************************************************)
MaxCont == 11

MaxMixed == 3

ContBytes == <<128, 255, 213>>

\* The runs of continuation bytes: every mix up to MaxMixed bytes, one byte
\* repeated up to MaxCont times.
Runs ==
    {[i \in 1..Len(q) |-> ContBytes[q[i]]] : q \in SeqsUpTo(Len(ContBytes), MaxMixed)}
        \cup {[i \in 1..n |-> ContBytes[c]] : n \in 0..MaxCont, c \in 1..Len(ContBytes)}

LebInputs == Runs \cup {run \o <<t>> : run \in Runs, t \in 0..127}

LebCalls ==
    {[fn |-> f, on |-> o, bytes |-> b, args |-> <<>>] :
        f \in {"VarUint32", "VarInt32", "VarInt64"},
        o \in {"cursor", "stream"},
        b \in LebInputs}

MaxPad == 4

\* VarUint32 encodings of a number below 128, minimal and padded with 0x80
\* bytes and a last 0x00, with bytes of a next field behind them.
PaddedInputs ==
    {b \o tail :
        b \in {<<t>> : t \in {0, 1, 15, 16, 127}}
                \cup {<<128 + t>> \o [i \in 1..n |-> 128] \o <<last>> :
                        t \in {0, 1, 15, 16, 127}, n \in 0..(MaxPad - 1),
                        last \in {0, 1, 16}},
        tail \in {<<>>, <<5>>, <<128, 1>>, <<0, 255>>}}

PaddedCalls ==
    {[fn |-> "VarUint32", on |-> o, bytes |-> b, args |-> <<>>] :
        o \in {"cursor", "stream"}, b \in PaddedInputs}

MaxLocals == 3

\* Local counts as VarUint32 encodings and as numbers: 0, 1, 2^31 - 1, 2^31
\* and 2^32 - 1.
LocalCounts ==
    << <<0>>, <<1>>, <<255, 255, 255, 255, 7>>, <<128, 128, 128, 128, 8>>,
       <<255, 255, 255, 255, 15>> >>

LocalValues ==
    << U32(0, 0), U32(0, 1), U32(0, 2147483647), U32(1, 0), U32(1, 2147483647) >>

\* The bytes of a function body with the locals ls (indices into LocalCounts),
\* each of type i32, and the one instruction END.
BodyBytes(ls) ==
    LET payload == <<Len(ls)>> \o Concat([i \in 1..Len(ls) |-> LocalCounts[ls[i]] \o <<127>>])
                       \o <<11>>
    IN  <<Len(payload)>> \o payload

BodyCalls ==
    {[fn |-> "FuncBody", on |-> "cursor", bytes |-> BodyBytes(ls), args |-> ls] :
        ls \in SeqsUpTo(Len(LocalCounts), MaxLocals)}

\* The instructions with a reserved byte: call_indirect with a signature
\* index and a table reference, current_memory and grow_memory with a memory
\* reference; the reference is any byte, or missing.
Signatures == {<<0>>, <<3>>, <<128, 1>>}

ReservedInputs ==
    {<<CALLINDIRECT>> \o sig \o last :
        sig \in Signatures, last \in {<<>>} \cup {<<b>> : b \in 0..255}}
    \cup {<<op>> \o last :
        op \in {CURRENTMEMORY, GROWMEMORY}, last \in {<<>>} \cup {<<b>> : b \in 0..255}}

InstructionCalls ==
    {[fn |-> "Instruction", on |-> "cursor", bytes |-> b, args |-> <<>>] :
        b \in ReservedInputs}

\* One byte, any, alone or with a byte of a next field behind it.
ByteInputs == {<<b>> \o tail : b \in 0..255, tail \in {<<>>, <<127>>}}

TypeCalls ==
    {[fn |-> f, on |-> o, bytes |-> b, args |-> <<>>] :
        f \in {"ValueType", "BlockType"}, o \in {"cursor", "stream"}, b \in ByteInputs}

MaxExpr == 4

\* The instructions expressions are made of: block, loop, if i32, end and
\* i32.const 11, whose immediate is the byte of END.
ExprTokens == << <<2, 64>>, <<3, 64>>, <<4, 127>>, <<11>>, <<65, 11>> >>

\* The bytes of the instructions ts (indices into ExprTokens).
ExprBytes(ts) == Concat([i \in 1..Len(ts) |-> ExprTokens[ts[i]]])

\* The depth after ts is 0 somewhere: an expression decoder comes to an end.
Closes(ts) ==
    \E k \in 1..Len(ts) :
        Cardinality({i \in 1..k : ts[i] = 4}) > Cardinality({i \in 1..k : ts[i] < 4})

\* Expressions for the initializer decoder, the expression decoder and the
\* element segment decoder (behind the table index 0).  A reader inside a
\* section is given the ones that bring the decoder to an end.
ExprCalls ==
    {c \in {[fn |-> f, on |-> o, args |-> ts,
             bytes |-> (IF f = "ElementSegment" THEN <<0>> ELSE <<>>) \o ExprBytes(ts)] :
                f \in {"InitExpr", "Instructions", "ElementSegment"},
                o \in {"cursor", "stream"},
                ts \in SeqsUpTo(Len(ExprTokens), MaxExpr)} :
        c.on = "cursor" =>
            IF c.fn = "Instructions" THEN Closes(c.args)
            ELSE \E i \in 1..Len(c.args) : c.args[i] = 4}

MaxTrunc == 2

\* One well-formed section for each of the ids 0..12, in the order of the ids.
KnownSections ==
    << <<0, 3, 1, 36, 7>>,                   \* Custom "$", payload 07
       <<1, 4, 1, 96, 0, 0>>,                \* Type: () -> ()
       <<2, 5, 1, 0, 0, 0, 0>>,              \* Import "" "" func 0
       <<3, 2, 1, 0>>,                       \* Function: [0]
       <<4, 4, 1, 112, 0, 0>>,               \* Table: anyfunc, min 0
       <<5, 4, 1, 1, 0, 1>>,                 \* Memory: min 0, max 1
       <<6, 6, 1, 127, 0, 65, 0, 11>>,       \* Global: i32, i32.const 0
       <<7, 5, 1, 1, 102, 0, 0>>,            \* Export "f" -> func 0
       <<8, 1, 0>>,                          \* Start 0
       <<9, 6, 1, 0, 11, 2, 0, 1>>,          \* Element: table 0, [0, 1]
       <<10, 4, 1, 2, 0, 11>>,               \* Code: one body, no locals, END
       <<11, 6, 1, 0, 1, 11, 1, 9>>,         \* Data: memory 0, nop, [09]
       <<12, 1, 5>> >>                       \* DataCount 5

\* The sections among them that hold no instruction sequence.
PlainSections == {1, 2, 3, 4, 5, 6, 8, 9, 13}

\* Sections that are not well-formed.
OddSections ==
    << <<3, 1, 2>>,                          \* Function: count 2, no entries
       <<8, 2, 0, 0>>,                       \* Start: one byte left over
       <<1, 4, 1, 64, 0, 0>>,                \* Type: form 0x40
       <<0, 3, 5, 36, 7>>,                   \* Custom: name of 5 bytes, 2 there
       <<0, 3, 2, 195, 40>>,                 \* Custom: name not UTF-8
       <<7, 4, 1, 1, 102, 4>>,               \* Export "f", kind 4
       <<0, 130, 0, 1, 36>> >>               \* Custom "$": length 2 as 82 00

\* What may follow a section in the input: nothing, a section, a stray byte.
Tails == << <<>>, <<1, 4, 1, 96, 0, 0>>, <<255>> >>

\* Payloads of sections with an id that is not known.
UnparsedPayloads == {<<>>, <<255>>, <<1, 96, 0, 0>>}

\* args: the place of the section in KnownSections (0: none) or, negated, in
\* OddSections, the number of bytes cut from its end (the id stays), the tail.
SectionCalls ==
    {[fn |-> "Section", on |-> o, args |-> <<k, 0, t>>,
      bytes |-> KnownSections[k] \o Tails[t]] :
        o \in {"cursor", "stream"}, k \in 1..Len(KnownSections), t \in 1..Len(Tails)}
    \cup {[fn |-> "Section", on |-> o, args |-> <<0 - k, 0, t>>,
           bytes |-> OddSections[k] \o Tails[t]] :
        o \in {"cursor", "stream"}, k \in 1..Len(OddSections), t \in 1..Len(Tails)}
    \cup {[fn |-> "Section", on |-> o, args |-> <<kc[1], kc[2], 1>>,
           bytes |-> SubSeq(KnownSections[kc[1]], 1, Len(KnownSections[kc[1]]) - kc[2])] :
        o \in {"cursor", "stream"},
        kc \in {x \in PlainSections \X (1..MaxTrunc) : x[2] < Len(KnownSections[x[1]])}}
    \cup {[fn |-> "Section", on |-> o, args |-> <<0, 0, t>>,
           bytes |-> <<id, Len(payload)>> \o payload \o Tails[t]] :
        o \in {"cursor", "stream"}, id \in 13..255, payload \in UnparsedPayloads,
        t \in 1..Len(Tails)}

MaxParams == 2

MaxResults == 3

\* The bytes of a list of value types ts (1: i32, 2: f64) behind its count.
TypeList(ts) == <<Len(ts)>> \o [i \in 1..Len(ts) |-> IF ts[i] = 1 THEN 127 ELSE 124]

\* Function types: any form byte, alone or before two lists; and the form
\* 0x60 before np parameter types and nr result types (args = <<np, nr>>).
FunctionTypeCalls ==
    {[fn |-> "FunctionType", on |-> o, args |-> <<0, 0>>, bytes |-> <<form>> \o rest] :
        o \in {"cursor", "stream"}, form \in 0..255,
        rest \in {<<>>, <<0, 0>>, <<1, 127, 2, 127, 126>>}}
    \cup {[fn |-> "FunctionType", on |-> o, args |-> <<Len(ps), Len(rs)>>,
           bytes |-> <<96>> \o TypeList(ps) \o TypeList(rs)] :
        o \in {"cursor", "stream"},
        ps \in SeqsUpTo(2, MaxParams), rs \in SeqsUpTo(2, MaxResults)}

\* A kind byte, any, alone or before the bytes of a type index, a table
\* type, limits or a global type.
KindInputs ==
    {<<b>> \o rest :
        b \in 0..255, rest \in {<<>>, <<0, 0, 0>>, <<112, 0, 0>>, <<127, 0, 0>>}}

KindCalls ==
    {[fn |-> f, on |-> o, args |-> <<>>, bytes |-> b] :
        f \in {"External", "Internal"}, o \in {"cursor", "stream"}, b \in KindInputs}

\* Export entries: the name "" or "f", then a kind byte and what follows it.
ExportCalls ==
    {[fn |-> "ExportEntry", on |-> o, args |-> <<Len(name) - 1>>, bytes |-> name \o b] :
        o \in {"cursor", "stream"}, name \in {<<0>>, <<1, 102>>}, b \in KindInputs}

\* What follows an opcode byte: nothing, nine bytes 00, or 40 and eight
\* bytes 00 (the block type NoResult first).
Immediates == {<<>>, Zeros(9), <<64>> \o Zeros(8)}

OpcodeCalls ==
    {[fn |-> "Opcode", on |-> o, args |-> <<>>, bytes |-> <<op>> \o imm] :
        o \in {"cursor", "stream"}, op \in 0..255, imm \in Immediates}

MaxData == 3

MaxBuf == 3

\* Reads of a wrapped stream: the bytes it still holds, what it does at its
\* end, the length of the caller's buffer and the count the stream returns.
ReadCalls ==
    {c \in {[fn |-> "BufReader", on |-> o, bytes |-> [i \in 1..d |-> 10 + i],
             args |-> <<n, k>>] :
                o \in {"stream", "faulty"}, d \in 0..MaxData,
                n \in 0..MaxBuf, k \in 0..MaxBuf} :
        /\ c.args[2] <= Min(c.args[1], Len(c.bytes))
        /\ c.args[2] = 0 => (c.args[1] = 0 \/ Len(c.bytes) = 0)}

\* The inputs of the decoders, one set for each kind of input.
Calls ==
    <<LebCalls, PaddedCalls, BodyCalls, InstructionCalls, ReadCalls, TypeCalls,
      ExprCalls, SectionCalls, FunctionTypeCalls, KindCalls,
      ExportCalls, OpcodeCalls>>

\* The variables of the module decoder, which stands still here.
decoder_vars == <<rd, short_reads, wire, pc, result, sections, sec, fill, list, ent,
                  body, instrs, block_count, spins, starved, prev, ref>>

\* The reader the decoder is applied to.
CallReader ==
    IF call.on = "cursor" THEN Cursor(call.bytes)
    ELSE IF call.on = "faulty" THEN Stream(call.bytes, "fault")
    ELSE Stream(call.bytes, "eof")

\* The caller's buffer of n bytes, holding bytes of an earlier use.
CallBuffer(n) == [i \in 1..n |-> 200 + i]

InitCodec ==
    /\ wire = [pre |-> 1, secs |-> <<>>, last |-> 0, cut |-> 0]
    /\ rd = Stream(<<>>, "eof")
    /\ short_reads = 0
    /\ ref = NoRef
    /\ \E i \in 1..Len(Calls) : call \in Calls[i]
    /\ ret = NoRet
    /\ Start

\* The decoder fn is applied now.
Apply(fn) ==
    /\ call.fn = fn
    /\ ret = NoRet
    /\ UNCHANGED <<decoder_vars, call>>

ApplyVarUint32 ==
    /\ Apply("VarUint32")
    /\ ret' = <<VarUint32Deserialize(CallReader)>>

ApplyVarInt32 ==
    /\ Apply("VarInt32")
    /\ ret' = <<VarInt32Deserialize(CallReader)>>

ApplyVarInt64 ==
    /\ Apply("VarInt64")
    /\ ret' = <<VarInt64Deserialize(CallReader)>>

\* FuncBody::deserialize up to the instruction loop.
ApplyFuncBody ==
    /\ Apply("FuncBody")
    /\ ret' = <<FuncBodyBegin(CallReader)>>

ApplyInstruction ==
    /\ Apply("Instruction")
    /\ ret' = <<InstructionDeserialize(CallReader)>>

ApplyValueType ==
    /\ Apply("ValueType")
    /\ ret' = <<ValueTypeDeserialize(CallReader)>>

ApplyBlockType ==
    /\ Apply("BlockType")
    /\ ret' = <<BlockTypeDeserialize(CallReader)>>

ApplyInitExpr ==
    /\ Apply("InitExpr")
    /\ ret' = <<InitExprDeserialize(CallReader)>>

ApplyInstructions ==
    /\ Apply("Instructions")
    /\ ret' = <<InstructionsDeserialize(CallReader)>>

ApplyElementSegment ==
    /\ Apply("ElementSegment")
    /\ ret' = <<ElementSegmentDeserialize(CallReader)>>

ApplyFunctionType ==
    /\ Apply("FunctionType")
    /\ ret' = <<FunctionTypeDeserialize(CallReader)>>

ApplyExternal ==
    /\ Apply("External")
    /\ ret' = <<ExternalDeserialize(CallReader)>>

ApplyInternal ==
    /\ Apply("Internal")
    /\ ret' = <<InternalDeserialize(CallReader)>>

ApplyExportEntry ==
    /\ Apply("ExportEntry")
    /\ ret' = <<ExportEntryDeserialize(CallReader)>>

\* Instruction::deserialize over every opcode byte.
ApplyOpcode ==
    /\ Apply("Opcode")
    /\ ret' = <<InstructionDeserialize(CallReader)>>

ApplySection ==
    /\ Apply("Section")
    /\ ret' = <<SectionDeserialize(CallReader)>>

\* BufReader::read into a buffer of args[1] bytes, the wrapped stream
\* returning args[2] bytes.
ApplyBufReaderRead ==
    /\ Apply("BufReader")
    /\ ret' = <<Read(CallReader, CallBuffer(call.args[1]), call.args[2])>>

NextCodec ==
    \/ ApplyBufReaderRead
    \/ ApplyVarUint32
    \/ ApplyVarInt32
    \/ ApplyVarInt64
    \/ ApplyFuncBody
    \/ ApplyInstruction
    \/ ApplyValueType
    \/ ApplyBlockType
    \/ ApplyInitExpr
    \/ ApplyInstructions
    \/ ApplyElementSegment
    \/ ApplySection
    \/ ApplyFunctionType
    \/ ApplyExternal
    \/ ApplyInternal
    \/ ApplyExportEntry
    \/ ApplyOpcode

SpecCodec == InitCodec /\ [][NextCodec]_vars

(***************************************************************************)
(* The input of a decode and what is expected of it.                       *)
(***************************************************************************)
\* The input starts with 00 61 73 6D.
HasMagic == Len(rd.data) >= 4 /\ SubSeq(rd.data, 1, 4) = WASM_MAGIC_NUMBER

\* Module::deserialize has returned.
Done == pc = "done"

\* A section with one of the ids 1..12 was just accepted.
Accepted == pc = "section" /\ sec.id \in 1..12

\* What the sections of WellFormed decode to, one by one (the initializer of
\* the global as InitExpr::deserialize returns it).
Decodings ==
    << Section(1, <<[form |-> 96, params |-> <<>>, results |-> <<>>]>>),
       Section(3, <<U32OfNat(0)>>),
       Section(10, <<[locals |-> <<>>, instructions |-> <<Instr(END, <<>>)>>]>>),
       Section(6, <<[global_type |-> [content_type |-> "I32", is_mutable |-> FALSE],
                     init_expr |-> <<>>]>>),
       Section(0, [name |-> <<36>>, payload |-> <<7>>]) >>

\* The input is the preamble, complete well-formed sections and end-of-input.
WellFormedWire ==
    /\ wire.pre = 1
    /\ wire.cut = 0
    /\ wire.last <= Len(WellFormed)
    /\ rd.ending = "eof"

\* The sections a well-formed input decodes to.
Expected ==
    [i \in 1..Len(wire.secs) |-> Decodings[wire.secs[i]]]
        \o (IF wire.last = 0 THEN <<>> ELSE <<Decodings[wire.last]>>)

\* C1: an input whose first 4 bytes are not 00 61 73 6D is refused with
\* InvalidMagic, and no byte behind the first 4 is read: the decode never
\* gets to the version or to a section.
C1_InvalidMagic ==
    (Len(rd.data) >= 4 /\ ~HasMagic) =>
        /\ rd.pos <= 4
        /\ pc \in {"magic", "done"}
        /\ Done => (result.kind = "err" /\ result.err.kind = "InvalidMagic")

\* A longer input with another magic was refused.
C1_Witness ==
    /\ Done
    /\ Len(rd.data) > 4
    /\ ~HasMagic
    /\ result.err.kind = "InvalidMagic"

\* C2: after the magic, a version other than 1 is refused with
\* UnsupportedVersion(v) before any section is decoded, and an input that
\* ends inside the version is never taken for version 1.  Stated for the
\* decodes in which every read returned all the bytes that were there.
C2_VersionGate ==
    (HasMagic /\ short_reads = 0) =>
        /\ (Len(rd.data) >= 8 /\ U32FromLeBytes(SubSeq(rd.data, 5, 8)) # U32OfNat(1)) =>
              /\ pc \in {"magic", "version", "done"}
              /\ sections = <<>>
              /\ Done => /\ result.kind = "err"
                         /\ result.err.kind = "UnsupportedVersion"
                         /\ result.err.n = U32FromLeBytes(SubSeq(rd.data, 5, 8))
        /\ Len(rd.data) < 8 =>
              /\ pc \in {"magic", "version", "done"}
              /\ result.kind # "ok"

\* C3: the preamble, k complete well-formed sections and end-of-input decode
\* to a module of exactly these k sections, in the order of the wire.
C3_SectionsInOrder ==
    (Done /\ WellFormedWire) =>
        /\ result = ModuleOk
        /\ Len(sections) = Len(Expected)
        /\ \A i \in 1..Len(Expected) :
              /\ sections[i].id = Expected[i].id
              /\ sections[i].val = Expected[i].val

\* C4: when a section with an id in 1..12 or a function body is accepted,
\* the cursor of its reader stands at the declared length.
C4_LengthExact ==
    /\ Accepted => sec.reader.cursor.pos = sec.reader.declared_length
    /\ (sec.id = 10 /\ pc \in {"element", "close"} /\ prev = "bodyclose") =>
          body.cursor.pos = body.declared_length

\* A code section and the function body in it were accepted.
C4_Witness ==
    /\ Accepted
    /\ sec.id = 10
    /\ sec.reader.declared_length > 0
    /\ body.declared_length > 0
    /\ list.items # <<>>

\* C5: no accepted section holds a value for which a read found fewer bytes
\* in the payload than it asked for.
C5_NoBytesPastEnd == Accepted => ~sec.reader.cursor.short

\* C6: a module is returned only if no section's length or payload was asked
\* of a stream that had fewer bytes left than were asked for.
C6_EndAtBoundary == (Done /\ result.kind = "ok") => ~starved

\* C7: no iteration of an instruction loop that starts on an exhausted
\* payload completes and leaves the loop running.
C7_NoIterationPastEnd == spins = 0

\* C8: the second decode of a stream, by way of a reader that may return less
\* than asked, returns what the first decode returned: the same failure or
\* the same sections.
C8_SameResult ==
    (Done /\ ref.kind # "none") =>
        /\ result.kind = ref.kind
        /\ result.err.kind = ref.err.kind
        /\ result.err = ref.err
        /\ result.kind = "ok" =>
              /\ Len(sections) = Len(ref.sections)
              /\ \A i \in 1..Len(sections) :
                    /\ sections[i].id = ref.sections[i].id
                    /\ sections[i].val = ref.sections[i].val

\* C9: when the read of a section id ends the decode on a stream that fails
\* at its end, the module decode fails with the failure of the transport.
C9_TransportFailureKept ==
    (Done /\ prev = "section" /\ rd.ending = "fault") =>
        /\ result.kind = "err"
        /\ result.err = FromIoError("ConnectionReset")

\* C10: a close that finds bytes left in the payload of a section or of a
\* function body fails with InconsistentLength, the declared length as
\* expected and the position of the cursor as actual.
C10_InconsistentLength ==
    (Done /\ prev \in {"close", "bodyclose"}) =>
        LET reader == IF prev = "close" THEN sec.reader ELSE body
        IN  /\ result.kind = "err"
            /\ result.err.kind = "InconsistentLength"
            /\ result.err.n = [expected |-> reader.declared_length,
                               actual   |-> reader.cursor.pos]

\* The depth after the first k instructions of is, by their opcodes: 1 at the
\* start, one more for Block / Loop / If, one less for End.
RECURSIVE Depth(_, _)
Depth(is, k) ==
    IF k = 0 THEN 1
    ELSE Depth(is, k - 1)
            + (IF is[k].op \in {BLOCK, LOOP, IF_} THEN 1
               ELSE IF is[k].op = END THEN -1 ELSE 0)

\* The instructions of is with an opcode of ops.
Having(is, ops) == {k \in 1..Len(is) : is[k].op \in ops}

\* The instruction sequence is ends a body: the depth is 0 after its last
\* instruction, an End, and at least 1 before.
Balanced(is) ==
    /\ is # <<>>
    /\ is[Len(is)].op = END
    /\ Depth(is, Len(is)) = 0
    /\ \A k \in 0..(Len(is) - 1) : Depth(is, k) >= 1
    /\ Cardinality(Having(is, {END})) = 1 + Cardinality(Having(is, {BLOCK, LOOP, IF_}))

\* A function body was just accepted.
BodyAccepted == prev = "bodyclose" /\ pc \in {"element", "close"}

\* C14: in Instructions::deserialize the depth counter is 1 at the start and
\* at least 1 before every instruction is read, and it is the depth of the
\* instructions read so far (up on Block / Loop / If, down on End, unchanged
\* by Else and the rest); for every accepted body it is 0 after the last
\* instruction alone, which is End and is part of the returned sequence, and
\* the End instructions are one more than the Block / Loop / If instructions.
C14_Balanced ==
    /\ pc = "instruction" =>
          /\ block_count >= 1
          /\ block_count = Depth(instrs, Len(instrs))
          /\ prev = "element" => (block_count = 1 /\ instrs = <<>>)
    /\ pc = "bodyclose" => (block_count = 0 /\ Balanced(instrs))
    /\ BodyAccepted =>
          /\ list.items[Len(list.items)].instructions = instrs
          /\ Balanced(instrs)

C14_Witness ==
    /\ BodyAccepted
    /\ Having(instrs, {IF_}) # {}
    /\ Having(instrs, {ELSE_}) # {}
    /\ Len(instrs) = 4

\* The first entry of a global section was just accepted.
FirstGlobalAccepted ==
    prev = "segment" /\ pc \in {"element", "close"} /\ sec.id = 6 /\ Len(list.items) = 1

\* The bytes of its initializer: what was read behind the count of the list
\* (one byte) and the GlobalType (two bytes).
InitializerBytes == SubSeq(sec.reader.cursor.data, 4, sec.reader.cursor.pos)

\* C17: the initializer expression of an accepted GlobalEntry holds the
\* instructions that were read: when an instruction precedes the END, the
\* expression is not empty and starts with that instruction.
C17_InitExprRetained ==
    (FirstGlobalAccepted /\ Len(InitializerBytes) > 1) =>
        /\ list.items[1].init_expr # <<>>
        /\ list.items[1].init_expr[1].op = InitializerBytes[1]

\* The section ids of the input, in order.
WireIds == [i \in 1..Len(WireSections(wire)) |-> WireSections(wire)[i][1]]

\* The ids whose order and uniqueness the format fixes.
OrderedIds == 1..11

\* Positions of the input where a section follows one with a higher id, and
\* where one repeats an id.
OutOfOrder ==
    {j \in 1..Len(WireIds) :
        /\ WireIds[j] \in OrderedIds
        /\ \E i \in 1..(j - 1) : WireIds[i] \in OrderedIds /\ WireIds[i] > WireIds[j]}

Repeated ==
    {j \in 1..Len(WireIds) :
        /\ WireIds[j] \in OrderedIds
        /\ \E i \in 1..(j - 1) : WireIds[i] = WireIds[j]}

\* C18: of an input of well-formed sections, read from a reader that fills
\* every request, the decode fails with DuplicatedSections(id) when a known
\* non-custom id repeats and with SectionsOutOfOrder when one follows a higher
\* id; no accepted module holds two sections of the same non-custom kind.
C18_OrderedUnique ==
    /\ (Done /\ result.kind = "ok") =>
          \A i, j \in 1..Len(sections) :
              (i < j /\ sections[i].id \in OrderedIds) => sections[i].id # sections[j].id
    /\ (Done /\ WellFormedWire /\ short_reads = 0) =>
          /\ Repeated # {} =>
                (result.kind = "err" /\ result.err.kind = "DuplicatedSections")
          /\ (Repeated = {} /\ OutOfOrder # {}) =>
                (result.kind = "err" /\ result.err.kind = "SectionsOutOfOrder")

\* C19: no buffer is filled for a declared length of 2^31 - 1 bytes: a length
\* that large is refused before buffered_read! starts.
C19_LengthBounded == ~(pc = "fill" /\ fill.length >= 2147483647)

(***************************************************************************)
(* The codecs on their own.                                                *)
(***************************************************************************)
\* The decoder fn has returned.
Returned(fn) == call.fn = fn /\ ret # NoRet

\* The bytes start with n bytes that have the continuation bit set.
StartsWithCont(n) ==
    Len(call.bytes) >= n /\ \A i \in 1..n : call.bytes[i] >= 128

\* The bytes are an encoding of exactly n bytes: n - 1 bytes with the
\* continuation bit, then one without it.
EncodingOf(n) ==
    n >= 1 /\ StartsWithCont(n - 1) /\ Len(call.bytes) >= n /\ call.bytes[n] < 128

\* The 7-bit group i (from 1) of a u32.
U32Group(u, i) ==
    IF i < 5 THEN (u.lo \div (128 ^ (i - 1))) % 128
    ELSE (u.lo \div (2 ^ 28)) + 8 * u.hi

\* C11: VarUint32 decode consumes at most 5 bytes; five bytes with the
\* continuation bit fail with InvalidVarUint32 with no sixth byte read; a
\* 5-byte encoding whose last byte is above 0x0F fails; and an accepted
\* encoding of n bytes yields a value whose 7-bit groups are the n groups of
\* the encoding, none of their bits dropped.
C11_VarUint32Bounded ==
    Returned("VarUint32") =>
        LET out == ret[1]
        IN  /\ out.r.pos <= 5
            /\ StartsWithCont(5) =>
                  (~out.ok /\ out.err.kind = "InvalidVarUint32" /\ out.r.pos = 5)
            /\ (EncodingOf(5) /\ call.bytes[5] > 15) => ~out.ok
            /\ \A n \in 1..5 :
                  (EncodingOf(n) /\ out.ok) =>
                      /\ out.r.pos = n
                      /\ \A i \in 1..5 :
                            U32Group(out.val, i) =
                                (IF i <= n THEN call.bytes[i] % 128 ELSE 0)

C11_Witness ==
    /\ Returned("VarUint32")
    /\ call.bytes = <<255, 255, 255, 255, 255, 127>>
    /\ ~ret[1].ok
    /\ ret[1].err.kind = "InvalidVarUint32"
    /\ ret[1].r.pos = 5

\* The sum of the first n 7-bit groups of the bytes, each at its place.
RECURSIVE GroupSum(_, _)
GroupSum(bytes, n) ==
    IF n = 0 THEN 0
    ELSE GroupSum(bytes, n - 1) + (bytes[n] % 128) * (128 ^ (n - 1))

\* The number an n-byte signed LEB128 encoding of 32 bits stands for: the
\* groups, sign-extended from bit 6 of the last byte; of a fifth byte only the
\* low 4 bits are bits of the number, the highest of them the sign.
SignedLeb32(bytes, n) ==
    IF n < 5
    THEN GroupSum(bytes, n) - (IF bytes[n] % 128 >= 64 THEN 128 ^ n ELSE 0)
    ELSE LET nib == bytes[5] % 16
         IN  (IF nib >= 8 THEN nib - 16 ELSE nib) * (2 ^ 28) + GroupSum(bytes, 4)

\* C12: VarInt32 decode consumes at most 5 bytes; five bytes with the
\* continuation bit fail with InvalidVarInt32; an encoding of fewer than 5
\* bytes is accepted, one of 5 bytes exactly when its last byte is in
\* 0x00..0x07 or 0x78..0x7F and otherwise fails with InvalidVarInt32; every
\* accepted encoding yields the sign-extended number it stands for.
C12_VarInt32Value ==
    Returned("VarInt32") =>
        LET out == ret[1]
        IN  /\ out.r.pos <= 5
            /\ StartsWithCont(5) =>
                  (~out.ok /\ out.err.kind = "InvalidVarInt32" /\ out.r.pos = 5)
            /\ \A n \in 1..5 :
                  EncodingOf(n) =>
                      /\ out.r.pos = n
                      /\ out.ok <=> (n < 5 \/ call.bytes[5] \in (0..7) \cup (120..127))
                      /\ ~out.ok => out.err.kind = "InvalidVarInt32"
                      /\ out.ok =>
                            /\ out.val = SignedLeb32(call.bytes, n)
                            /\ out.val >= -2147483647 - 1
                            /\ out.val <= 2147483647

C12_Witness ==
    /\ Returned("VarInt32")
    /\ call.bytes = <<255, 255, 255, 255, 120>>
    /\ ret[1].ok
    /\ ret[1].val = -1879048193

CountPart(u, part) ==
    IF part = "top" THEN u.hi * 32768
    ELSE IF part = "high" THEN u.lo \div 65536
    ELSE u.lo % 65536

\* The sum of one part of the counts of the locals ls.
RECURSIVE SumOver(_, _)
SumOver(ls, part) ==
    IF ls = <<>> THEN 0
    ELSE CountPart(LocalValues[Head(ls)], part) + SumOver(Tail(ls), part)

\* The counts of the locals ls add up to more than 2^32 - 1: in units of 2^16
\* the sum is at least 2^16.
SumExceedsU32(ls) ==
    SumOver(ls, "top") + SumOver(ls, "high") + (SumOver(ls, "low") \div 65536) >= 65536

RefByte == call.bytes[Len(call.bytes)]

\* The input holds its reference byte.
HasRefByte ==
    IF call.bytes[1] = CALLINDIRECT THEN call.bytes[Len(call.bytes) - 1] < 128
                                         /\ Len(call.bytes) >= 3
    ELSE Len(call.bytes) = 2

\* C16: CallIndirect with a table reference byte b # 0 fails with
\* InvalidTableReference(b), CurrentMemory and GrowMemory with a memory
\* reference byte b # 0 fail with InvalidMemoryReference(b); with the byte 0
\* they are accepted, and every accepted one carries the reference byte 0.
C16_ReservedZero ==
    Returned("Instruction") =>
        LET out == ret[1]
            op  == call.bytes[1]
        IN  /\ (HasRefByte /\ RefByte # 0) =>
                  /\ ~out.ok
                  /\ out.err = ErrN(IF op = CALLINDIRECT THEN "InvalidTableReference"
                                    ELSE "InvalidMemoryReference", RefByte)
            /\ (HasRefByte /\ RefByte = 0) => out.ok
            /\ out.ok =>
                  /\ out.val.op = op
                  /\ out.val.imm[Len(out.val.imm)] = 0
                  /\ Len(out.val.imm) = (IF op = CALLINDIRECT THEN 2 ELSE 1)

C16_Witness ==
    /\ Returned("Instruction")
    /\ call.bytes = <<17, 0, 1>>
    /\ ~ret[1].ok
    /\ ret[1].err = ErrN("InvalidTableReference", 1)

\* C20: BufReader::read never returns Ok(0): when the wrapped stream
\* returns 0 bytes it fails with UnexpectedEof; a failure of the stream is
\* returned as it is; otherwise the count of the stream is returned and the
\* caller's buffer holds the bytes the stream wrote, the rest as it was.
C20_NoEmptyRead ==
    Returned("BufReader") =>
        LET out  == ret[1]
            n    == call.args[1]
            k    == call.args[2]
            lost == k = 0 /\ call.on = "faulty"
        IN  /\ out.io = IoOk => (out.r.pos > 0 /\ out.r.pos = k)
            /\ (k = 0 /\ ~lost) => out.io = "UnexpectedEof"
            /\ lost => out.io = "ConnectionReset"
            /\ k > 0 => out.io = IoOk
            /\ out.buf = [i \in 1..n |-> IF i <= k THEN call.bytes[i] ELSE 200 + i]

C20_Witness ==
    /\ Returned("BufReader")
    /\ call.on = "stream"
    /\ call.bytes = <<>>
    /\ call.args = <<3, 0>>
    /\ ret[1].io = "UnexpectedEof"
    /\ ret[1].buf = <<201, 202, 203>>

\* The u32 that is the sum of (b_i mod 128) * 128^i over the first n <= 5
\* bytes: bit 31, which is bit 3 of the fifth group, and the 31 bits below.
GroupsAsU32(bytes, n) ==
    IF n < 5 THEN U32(0, GroupSum(bytes, n))
    ELSE U32(((bytes[5] % 128) \div 8) % 2,
             GroupSum(bytes, 4) + (bytes[5] % 8) * (2 ^ 28))

\* The length of the encoding the bytes start with: the place of the first
\* byte without the continuation bit, 0 if there is none.
FirstClear(bytes) ==
    IF \A i \in 1..Len(bytes) : bytes[i] >= 128 THEN 0
    ELSE CHOOSE i \in 1..Len(bytes) :
            bytes[i] < 128 /\ \A j \in 1..(i - 1) : bytes[j] >= 128

\* C21: VarUint32 decode of an encoding of k <= 5 bytes, when it accepts,
\* yields the sum of (b_i mod 128) * 128^i and consumes exactly the k bytes up
\* to the first byte without the continuation bit, whatever follows; an
\* encoding of at most 5 bytes whose groups fit 32 bits is accepted, so one
\* padded with 0x80 bytes yields what the minimal encoding yields.
C21_VarUint32Value ==
    (Returned("VarUint32") /\ FirstClear(call.bytes) \in 1..5) =>
        LET out == ret[1]
            k   == FirstClear(call.bytes)
        IN  /\ out.r.pos = k
            /\ out.ok <=> (k < 5 \/ call.bytes[5] <= 15)
            /\ out.ok =>
                  /\ out.val = GroupsAsU32(call.bytes, k)
                  /\ (\A i \in 2..k : call.bytes[i] = (IF i < k THEN 128 ELSE 0)) =>
                        out.val = U32(0, call.bytes[1] % 128)

\* 8F 80 00, the number 15 padded, with bytes behind it was decoded.
C21_Witness ==
    /\ Returned("VarUint32")
    /\ call.bytes = <<143, 128, 0, 128, 1>>
    /\ ret[1].ok
    /\ ret[1].val = U32(0, 15)
    /\ ret[1].r.pos = 3

\* The 8-bit signed value of a byte below 128, sign-extended from bit 6.
SignExtend7(b) == IF b >= 64 THEN b - 128 ELSE b

\* The value types by their bytes.
ValueTypeOf(b) ==
    CASE b = 127 -> "I32"
      [] b = 126 -> "I64"
      [] b = 125 -> "F32"
      [] b = 124 -> "F64"

\* C22: ValueType decode consumes exactly one byte b; with bit 7 of b set it
\* fails with InvalidVarInt7(b); 0x7F, 0x7E, 0x7D, 0x7C yield I32, I64, F32,
\* F64 and every other byte fails with UnknownValueType(v), v the byte
\* sign-extended from bit 6.  BlockType decode accepts these four bytes and
\* 0x40 (NoResult), and no other.
C22_ValueType ==
    (Returned("ValueType") \/ Returned("BlockType")) =>
        LET out == ret[1]
            b   == call.bytes[1]
            v   == SignExtend7(b)
        IN  /\ out.r.pos = 1
            /\ b >= 128 => (~out.ok /\ out.err = ErrN("InvalidVarInt7", b))
            /\ b \in 124..127 => (out.ok /\ out.val = ValueTypeOf(b))
            /\ (call.fn = "ValueType" /\ b < 124) =>
                  /\ ~out.ok
                  /\ out.err = ErrN("UnknownValueType", v)
                  /\ v \in -64..63 /\ v \notin -4..-1
            /\ call.fn = "BlockType" =>
                  /\ out.ok <=> b \in {64, 124, 125, 126, 127}
                  /\ b = 64 => out.val = "NoResult"

\* The byte 0x40 was refused as a value type, with the value -64.
C22_Witness ==
    /\ Returned("ValueType")
    /\ call.bytes = <<64, 127>>
    /\ ~ret[1].ok
    /\ ret[1].err = ErrN("UnknownValueType", -64)
    /\ ret[1].r.pos = 1

\* The place of the first END among the instructions ts, 0 if there is none.
FirstEnd(ts) ==
    IF \A i \in 1..Len(ts) : ts[i] # 4 THEN 0
    ELSE CHOOSE i \in 1..Len(ts) : ts[i] = 4 /\ \A j \in 1..(i - 1) : ts[j] # 4

\* The depth after the first k instructions of ts: 1, one more for each
\* block, loop and if, one less for each END.
TokenDepth(ts, k) ==
    1 + Cardinality({i \in 1..k : ts[i] < 4}) - Cardinality({i \in 1..k : ts[i] = 4})

\* The place of the END that brings the depth to 0, 0 if there is none.
FirstClose(ts) ==
    IF ~Closes(ts) THEN 0
    ELSE CHOOSE k \in 1..Len(ts) :
            TokenDepth(ts, k) = 0 /\ \A j \in 1..(k - 1) : TokenDepth(ts, j) > 0

\* The number of bytes of the first k instructions of ts.
PrefixLen(ts, k) == Len(ExprBytes(SubSeq(ts, 1, k)))

\* C23: InitExpr decode tracks no depth: it consumes the bytes up to and
\* with the first END that stands where an instruction starts, and no more,
\* also when block, loop or if were read before it; the expression decoder
\* over the same bytes goes on until the depth is back at 0; and behind the
\* initializer of an element segment the bytes after that first END are
\* decoded as the member list.
C23_InitExprFirstEnd ==
    /\ Returned("InitExpr") =>
          /\ ret[1].ok <=> FirstEnd(call.args) > 0
          /\ ret[1].ok => ret[1].r.pos = PrefixLen(call.args, FirstEnd(call.args))
    /\ Returned("Instructions") =>
          /\ ret[1].ok <=> FirstClose(call.args) > 0
          /\ ret[1].ok =>
                /\ ret[1].r.pos = PrefixLen(call.args, FirstClose(call.args))
                /\ Len(ret[1].val) = FirstClose(call.args)
                /\ FirstClose(call.args) >= FirstEnd(call.args)
    /\ (Returned("ElementSegment") /\ FirstEnd(call.args) > 0) =>
          LET first == 1 + PrefixLen(call.args, FirstEnd(call.args))
              rest  == SubSeq(call.bytes, first + 1, Len(call.bytes))
          IN  (rest # <<>> /\ Len(rest) > rest[1]) =>
                  /\ ret[1].ok
                  /\ ret[1].r.pos = first + 1 + rest[1]
                  /\ ret[1].val.members = [j \in 1..rest[1] |-> U32(0, rest[j + 1])]

\* block, end, i32.const 11, end: the initializer decoder stopped behind
\* the first END, inside the block.
C23_Witness ==
    /\ Returned("InitExpr")
    /\ call.args = <<1, 4, 5, 4>>
    /\ call.on = "cursor"
    /\ ret[1].ok
    /\ ret[1].r.pos = 3
    /\ Avail(ret[1].r) = 3

\* The id and the declared length of the section of the input (the length is
\* one byte, or the two bytes 82 00), the number of bytes up to its payload
\* and the payload.
WireId == call.bytes[1]

DeclaredLength ==
    IF call.bytes[2] >= 128 THEN call.bytes[2] - 128 + 128 * call.bytes[3]
    ELSE call.bytes[2]

HeaderLength == IF call.bytes[2] >= 128 THEN 3 ELSE 2

\* The input holds the whole payload.
WholePayload == Len(call.bytes) >= HeaderLength + DeclaredLength

WirePayload == SubSeq(call.bytes, HeaderLength + 1, HeaderLength + DeclaredLength)

\* The input is one of KnownSections, whole.
KnownCall == call.args[1] > 0 /\ call.args[2] = 0

\* The variants of Section by id.
KindNames ==
    <<"Custom", "Type", "Import", "Function", "Table", "Memory", "Global",
      "Export", "Start", "Element", "Code", "Data", "DataCount">>

\* What the decoders of the ids 0..12 make of KnownSections.
KnownDecodings ==
    << [name |-> <<36>>, payload |-> <<7>>],
       <<[form |-> 96, params |-> <<>>, results |-> <<>>]>>,
       <<[module_str |-> <<>>, field_str |-> <<>>,
          external |-> [kind |-> "Function", val |-> U32Zero]]>>,
       <<U32Zero>>,
       <<[elem_type |-> "AnyFunc", limits |-> [initial |-> U32Zero, maximum |-> <<>>]]>>,
       <<[initial |-> U32Zero, maximum |-> <<U32(0, 1)>>]>>,
       <<[global_type |-> [content_type |-> "I32", is_mutable |-> FALSE],
          init_expr |-> <<>>]>>,
       <<[field_str |-> <<102>>, internal |-> [kind |-> "Function", val |-> U32Zero]]>>,
       U32Zero,
       <<[index |-> U32Zero, offset |-> << <<>> >>, members |-> <<U32Zero, U32(0, 1)>>]>>,
       <<[locals |-> <<>>, instructions |-> <<Instr(END, <<>>)>>]>>,
       <<[index |-> U32Zero, offset |-> << <<>> >>, value |-> <<9>>]>>,
       U32(0, 5) >>

\* C24: Section decode takes the ids 0..12 to the decoders of Custom, Type,
\* Import, Function, Table, Memory, Global, Export, Start, Element, Code,
\* Data and DataCount; every other id byte, 13..255, gives Unparsed with
\* that id and the payload bytes of the declared length as they are; it
\* never fails with InvalidSectionId.
C24_SectionDispatch ==
    Returned("Section") =>
        LET out == ret[1]
        IN  /\ ~out.ok => out.err.kind # "InvalidSectionId"
            /\ out.ok =>
                  /\ out.val.id = WireId
                  /\ out.val.kind = (IF WireId <= 12 THEN KindNames[WireId + 1]
                                     ELSE "Unparsed")
            /\ KnownCall =>
                  /\ out.ok
                  /\ out.val.val = KnownDecodings[WireId + 1]
            /\ (WireId >= 13 /\ WholePayload) =>
                  /\ out.ok
                  /\ out.val.val = WirePayload
                  /\ Len(out.val.val) = DeclaredLength

\* The id FF with the payload 01 60 00 00, a Type section behind it.
C24_Witness ==
    /\ Returned("Section")
    /\ call.bytes = <<255, 4, 1, 96, 0, 0, 1, 4, 1, 96, 0, 0>>
    /\ ret[1].ok
    /\ ret[1].val = [kind |-> "Unparsed", id |-> 255, val |-> <<1, 96, 0, 0>>]

\* The length the name of a custom section declares: the first byte of the
\* payload (below 128 in every input).
DeclaredNameLength == WirePayload[1]

\* C25: an accepted Custom section of declared length L has a name and a
\* payload that, with the one byte of the name's length, make up L bytes and
\* are the bytes of the input at their places; and a section whose name
\* declares more bytes than the section has left is refused.
C25_CustomExact ==
    (Returned("Section") /\ WireId = 0 /\ WholePayload /\ DeclaredLength > 0) =>
        LET out == ret[1]
        IN  /\ DeclaredNameLength > DeclaredLength - 1 => ~out.ok
            /\ out.ok =>
                  /\ 1 + Len(out.val.val.name) + Len(out.val.val.payload) = DeclaredLength
                  /\ out.val.val.name = SubSeq(WirePayload, 2, 1 + DeclaredNameLength)
                  /\ out.val.val.payload =
                        SubSeq(WirePayload, 2 + DeclaredNameLength, DeclaredLength)

\* The value types of the n bytes of the input from place i on.
TypesAt(i, n) ==
    [j \in 1..n |-> IF call.bytes[i + j - 1] = 127 THEN "I32"
                    ELSE IF call.bytes[i + j - 1] = 126 THEN "I64" ELSE "F64"]

\* The input is the form byte and two whole lists of value types.
TwoLists ==
    /\ Len(call.bytes) >= 3
    /\ Len(call.bytes) = 3 + call.bytes[2] + call.bytes[3 + call.bytes[2]]

\* C26: FunctionType decode fails with UnknownFunctionForm(b) for every form
\* byte b other than 0x60, with no byte behind the form read; with the form
\* 0x60 it reads the parameter types and the result types and fails with the
\* guidance message when there are more than one result; so every accepted
\* FunctionType has the form 0x60 and at most one result, and the section
\* payload 01 60 00 00 gives one type without parameters and results.
C26_FunctionType ==
    /\ Returned("FunctionType") =>
          LET out  == ret[1]
              form == call.bytes[1]
          IN  /\ form # 96 =>
                    (~out.ok /\ out.err = ErrN("UnknownFunctionForm", form)
                        /\ out.r.pos = 1)
              /\ out.ok => (out.val.form = 96 /\ Len(out.val.results) <= 1)
              /\ (form = 96 /\ TwoLists) =>
                    LET np == call.bytes[2]
                        nr == call.bytes[3 + np]
                    IN  /\ out.r.pos = Len(call.bytes)
                        /\ out.ok <=> nr <= 1
                        /\ ~out.ok =>
                              (out.err.kind = "Other"
                                  /\ out.err.msg = "Enable the multi_value feature")
                        /\ out.ok =>
                              /\ out.val.params = TypesAt(3, np)
                              /\ out.val.results = TypesAt(4 + np, nr)
    /\ (Returned("Section") /\ call.bytes = <<1, 4, 1, 96, 0, 0>>) =>
          /\ ret[1].ok
          /\ ret[1].val.val = <<[form |-> 96, params |-> <<>>, results |-> <<>>]>>

\* (i32, f64) -> (f64, i32) was refused with the guidance message.
C26_Witness ==
    /\ Returned("FunctionType")
    /\ call.bytes = <<96, 2, 127, 124, 2, 124, 127>>
    /\ ~ret[1].ok
    /\ ret[1].err.kind = "Other"
    /\ ret[1].r.pos = 7

\* The kinds of an import and of an export by their discriminator.
KindOf(b) == <<"Function", "Table", "Memory", "Global">>[b + 1]

\* C27: External decode reads one discriminator byte b; 0, 1, 2, 3 select
\* Function, Table, Memory, Global, and every other byte, 4..255, fails with
\* UnknownExternalKind(b), b being the byte that was read.
C27_ExternalKind ==
    Returned("External") =>
        LET out == ret[1]
            b   == call.bytes[1]
        IN  /\ b >= 4 =>
                  (~out.ok /\ out.err = ErrN("UnknownExternalKind", b) /\ out.r.pos = 1)
            /\ out.ok => (b <= 3 /\ out.val.kind = KindOf(b))

\* C28: Internal decode of a kind byte b in 0..3 yields Function, Table,
\* Memory or Global with the VarUint32 index that follows, and fails for
\* every other byte with UnknownInternalKind(b), no index read; ExportEntry
\* decode reads the name and then this kind; the Export section payload
\* 01 01 66 00 00 gives the one entry "f" exporting Function(0).
C28_ExportEntry ==
    /\ Returned("Internal") =>
          LET out == ret[1]
              b   == call.bytes[1]
          IN  /\ b >= 4 =>
                    (~out.ok /\ out.err = ErrN("UnknownInternalKind", b)
                        /\ out.r.pos = 1)
              /\ (b <= 3 /\ Len(call.bytes) > 1) =>
                    /\ out.ok
                    /\ out.val = [kind |-> KindOf(b), val |-> U32(0, call.bytes[2])]
                    /\ out.r.pos = 2
    /\ Returned("ExportEntry") =>
          LET out == ret[1]
              n   == call.args[1]
              b   == call.bytes[n + 2]
          IN  /\ b >= 4 =>
                    (~out.ok /\ out.err = ErrN("UnknownInternalKind", b)
                        /\ out.r.pos = n + 2)
              /\ (b <= 3 /\ Len(call.bytes) > n + 2) =>
                    /\ out.ok
                    /\ out.val.field_str = SubSeq(call.bytes, 2, n + 1)
                    /\ out.val.internal =
                          [kind |-> KindOf(b), val |-> U32(0, call.bytes[n + 3])]
                    /\ out.r.pos = n + 3
    /\ (Returned("Section") /\ call.bytes = <<7, 5, 1, 1, 102, 0, 0>>) =>
          /\ ret[1].ok
          /\ ret[1].val.kind = "Export"
          /\ ret[1].val.val =
                <<[field_str |-> <<102>>,
                   internal |-> [kind |-> "Function", val |-> U32Zero]]>>

\* "f" with the kind byte 0x40 was refused with that byte.
C28_Witness ==
    /\ Returned("ExportEntry")
    /\ call.bytes = <<1, 102, 64, 0, 0, 0>>
    /\ ~ret[1].ok
    /\ ret[1].err = ErrN("UnknownInternalKind", 64)
    /\ ret[1].r.pos = 3

\* The opcode bytes outside the MVP table.
UnknownOpcodes == (6..10) \cup (18..25) \cup (28..31) \cup (37..39) \cup (192..255)

\* The number of immediates of the instruction with the opcode op, and the
\* number of bytes they take when each takes as few as it can (an empty
\* branch table, numbers below 64).
ImmCount(op) ==
    IF op \in {14, 17} \cup (40..62) THEN 2
    ELSE IF op \in (2..4) \cup {12, 13, 16} \cup (32..36) \cup (63..68) THEN 1
    ELSE 0

ImmBytes(op) ==
    IF op = 67 THEN 4 ELSE IF op = 68 THEN 8 ELSE ImmCount(op)

\* C29: Instruction decode fails with UnknownOpcode(v), only the opcode byte
\* consumed, for exactly the bytes v in 0x06..0x0A, 0x12..0x19, 0x1C..0x1F,
\* 0x25..0x27 and 0xC0..0xFF; every other opcode byte gives the instruction
\* of that opcode with its immediates, and exactly their bytes are read.
C29_UnknownOpcode ==
    Returned("Opcode") =>
        LET out == ret[1]
            op  == call.bytes[1]
        IN  /\ op \in UnknownOpcodes =>
                  (~out.ok /\ out.err = ErrN("UnknownOpcode", op) /\ out.r.pos = 1)
            /\ op \notin UnknownOpcodes =>
                  /\ ~out.ok => out.err.kind # "UnknownOpcode"
                  /\ out.ok => (out.val.op = op /\ Len(out.val.imm) = ImmCount(op))
                  /\ (Len(call.bytes) = 10 /\ (op \in 2..4 <=> call.bytes[2] = 64)) =>
                        (out.ok /\ out.r.pos = 1 + ImmBytes(op))

\* The opcode 0xC0 was refused, the bytes behind it not read.
C29_Witness ==
    /\ Returned("Opcode")
    /\ call.bytes = <<192>> \o Zeros(9)
    /\ ~ret[1].ok
    /\ ret[1].err = ErrN("UnknownOpcode", 192)
    /\ ret[1].r.pos = 1

\* C30: a section is accepted only after its id, its declared length L and
\* L bytes of payload were taken from the outer reader, which then stands
\* 1 + (size of the length) + L bytes further; what the section decodes to
\* does not depend on the bytes behind these.
C30_FramingExact ==
    (Returned("Section") /\ ret[1].ok) =>
        /\ Len(call.bytes) >= 2
        /\ WholePayload
        /\ ret[1].r.pos = HeaderLength + DeclaredLength
        /\ call.args[1] > 0 => ret[1].val.val = KnownDecodings[WireId + 1]

====
